---- MODULE Spec2Model ----
(***************************************************************************)
(* PhotoSync PWA: the WebRTC session hook (usePhotoSyncWebRTC), the        *)
(* Socket.IO batch transfer path and the pairing scanner (QRScanner), as   *)
(* state machines.                                                         *)
(*                                                                         *)
(* One action per caller operation or event handler.  A handler runs to    *)
(* completion (single event loop); what it leaves behind is its last       *)
(* write to each piece of state (React 18 batches the set-state calls of   *)
(* one callback into one render).  Handlers are operators from a session   *)
(* record to a session record, so that a handler which calls another one   *)
(* (disconnect -> cleanup -> socket.disconnect() -> the socket's own       *)
(* 'disconnect' listener) is the composition the code performs.            *)
(***************************************************************************)
EXTENDS Integers, Sequences, FiniteSets, TLC

\* ------------------------------------------------------------ bounds
MaxSockets == 2
MaxPeers == 2
MaxUrls == 2
MaxChunks == 2
NumPhotos == 2
NumChunkVals == 2
MaxManifest == 2
MaxBatchUrls == 1
MaxBuffered == 1
MaxTimers == 1
MaxAdvances == 3
MaxAppAdvances == 1
MaxWebSockets == 2
MaxClientSockets == 3
MaxPendingConnects == 2

PhotoIds == 1..NumPhotos
ChunkVals == 1..NumChunkVals
\* A raw chunk whose bytes are the text of a JSON number (the one byte "7").
DigitChunk == 7
SocketIds == 1..MaxSockets
PeerIds == 1..MaxPeers
MimeTypes == {"image/jpeg", "image/png"}
ErrorTexts == {"E1", "E2"}
NoError == "null"

\* ------------------------------------------------------------ state
VARIABLES
  connectionState,     \* useState('disconnected')
  error,               \* useState(null): the last error message
  photos,              \* useState([]): the transformed manifest entries
  photoData,           \* useState({}): photoId -> blob URL (0: no entry)
  signalingSocketRef,  \* useRef(null): socket id (0: null)
  peerRef,             \* useRef(null): peer id (0: null)
  currentPhotoRef,     \* useRef(null): descriptor of the photo being received
  photoBufferRef,      \* useRef(null): the chunks received for it
  sockets,             \* the socket.io sockets made by connect(), with the closure each one's listeners hold
  peers,               \* the SimplePeer objects made by createPeerConnection
  blobs,               \* the blobs behind the object URLs created so far (URL n is blobs[n])
  revoked,             \* object URLs passed to URL.revokeObjectURL
  memoPhotoData,       \* photoData as closed over by the memoized connect (through cleanup)
  effectPending,       \* a commit changed `cleanup`: the unmount effect's destructor is due
  effectPhotoData,     \* photoData as closed over by that destructor's cleanup
  sent,                \* messages emitted by the last step (data channel and signaling)
  lastEvt,             \* the operation or event the last step handled
  lastManifest,        \* history: the photos list of the last well-formed manifest message
  prevManifest,        \* history: the photos list of the manifest message before that one
  legacyPhotos,        \* legacy WebSocket hook, useState([]): the photo list
  lastLegacy,          \* history: the last MANIFEST_RESPONSE message
  sinceStart,          \* history: the binary frames delivered since the last photo-start, and the photoId its photo-complete named
  discRun,             \* history: consecutive disconnect() calls just made (capped at 2)
  stateBefore,         \* history: connectionState before the last step
  urlOwner,            \* history: the photoId each object URL was created for (URL n: urlOwner[n])
  sessionUrls,         \* history: the object URLs created since the last connect()
  photoBuffersRef,     \* batch path, useRef(new Map()): photoId -> buffer
  batchPhotos,         \* batch path, useState([]): the photo list
  batchUrls,           \* batch path: the blobs behind the object URLs created (URL n is batchUrls[n])
  batchError,          \* batch path, useState(null): the last error message
  batchEvt,            \* batch path: the event the last step handled and what its listeners did
  threw,               \* the last step's handler ended by an uncaught exception
  scanner,             \* QRScanner: scanning, html5QrCodeRef, error, pending stop() and error timers
  scanEvt,             \* QRScanner: the input the last step handled and what was handed to onScanSuccess
  store,               \* lib/webrtcConnection: the signed-in user, the webrtc_connections row, the localStorage item, the clock
  storeEvt,            \* lib/webrtcConnection: the call the last step made, the store it found and what it returned
  lastSaved,           \* history: the pairing of the last save() with no delete() since, and when it was saved
  wsHook,              \* usePhotoSync (WebSocket, device token): connectionState, error, wsRef, reconnectTimeoutRef, the connect() calls awaiting their save
  wsSockets,           \* the WebSockets made by its connect(): readyState, the connection timer, a pending close
  deviceStore,         \* lib/deviceConnections: the user, the device_connections row, localStorage 'photosync_server'
  wsEvt,               \* the event the last step of that hook handled, and what it sent
  client,              \* WebSocketClient: ws, authenticated, connectPromise, reconnectAttempts, pending reconnect timers; history: the caller's last call was disconnect()
  clientSockets,       \* the WebSockets made by its connect(), each with the promise and the timer of that connect()
  clientEvt,           \* the call or event the last step of the client handled, and what it transmitted
  app                  \* App: connectionMode, the connectionState its effects last ran for, history of its last handler

sessionVars == <<connectionState, error, photos, photoData, signalingSocketRef, peerRef,
                 currentPhotoRef, photoBufferRef, sockets, peers, blobs, revoked,
                 memoPhotoData, effectPending, effectPhotoData, sent, lastEvt,
                 lastManifest, prevManifest, sinceStart, discRun, stateBefore,
                 urlOwner, sessionUrls, threw>>
batchVars == <<photoBuffersRef, batchPhotos, batchUrls, batchError, batchEvt>>
legacyVars == <<legacyPhotos, lastLegacy>>
scanVars == <<scanner, scanEvt>>
storeVars == <<store, storeEvt, lastSaved>>
appVars == <<app>>
wsHookVars == <<wsHook, wsSockets, deviceStore, wsEvt>>
clientVars == <<client, clientSockets, clientEvt>>
extVars == <<storeVars, appVars, wsHookVars, clientVars>>
vars == <<sessionVars, batchVars, legacyVars, scanVars, extVars>>

NoPhotoData == [i \in PhotoIds |-> 0]
NullPhoto == [set |-> FALSE, id |-> 0, mimeType |-> "none"]
NullBuffer == [set |-> FALSE, chunks |-> <<>>]
NoSocket == [status |-> "unused", room |-> "none", closureState |-> "none",
             closurePhotoData |-> NoPhotoData, sendBuffer |-> <<>>]
NoPeer == [status |-> "unused", desktopId |-> "none", socket |-> 0, initiator |-> FALSE]
Evt(op, sock, peer) == [op |-> op, sock |-> sock, peer |-> peer]
Msg(ch, via, type, to, arg) == [ch |-> ch, via |-> via, type |-> type, to |-> to, arg |-> arg]

\* The session as one record: what the handlers read and write.
Cur ==
  [connectionState |-> connectionState, error |-> error, photos |-> photos,
   photoData |-> photoData, signalingSocketRef |-> signalingSocketRef,
   peerRef |-> peerRef, currentPhotoRef |-> currentPhotoRef,
   photoBufferRef |-> photoBufferRef, sockets |-> sockets, peers |-> peers,
   blobs |-> blobs, revoked |-> revoked, effectPending |-> effectPending,
   effectPhotoData |-> effectPhotoData, sent |-> <<>>, closeQueued |-> FALSE,
   rendered |-> FALSE, threw |-> FALSE]

\* ------------------------------------------------------------ React state setters
\* setConnectionState(s): schedules a render.
SetConnectionState(r, s) == [r EXCEPT !.connectionState = s, !.rendered = TRUE]

\* setError(e)
SetError(r, e) == [r EXCEPT !.error = e, !.rendered = TRUE]

\* addLog: setDebugLogs with a fresh array, so every call schedules a render.
\* The log's text is not kept.
AddLog(r) == [r EXCEPT !.rendered = TRUE]

\* ------------------------------------------------------------ socket.io-client
\* socket.emit(type, payload): written to the transport when the socket is
\* connected (recorded in `sent`), pushed on the socket's sendBuffer while the
\* transport is down.  A socket that was closed or gave up never connects again:
\* what is emitted on it is never sent.
Emit(r, s, type, to, arg) ==
  IF r.sockets[s].status = "connected"
  THEN [r EXCEPT !.sent = Append(@, Msg("sig", s, type, to, arg))]
  ELSE IF r.sockets[s].status = "opening"
       THEN [r EXCEPT !.sockets[s].sendBuffer = Append(@, Msg("sig", s, type, to, arg))]
       ELSE r

\* socket.on('disconnect'): `connectionState` is the value connect() closed over.
OnSocketDisconnect(r, s) ==
  IF r.sockets[s].closureState # "disconnected"
  THEN SetConnectionState(AddLog(r), "connecting")
  ELSE AddLog(r)

\* socket.disconnect(): a connected socket emits 'disconnect' synchronously
\* ("io client disconnect"); a socket that is not connected emits nothing.
\* Either way the socket never reconnects.
SocketDisconnect(r, s) ==
  IF r.sockets[s].status = "connected"
  THEN OnSocketDisconnect([r EXCEPT !.sockets[s].status = "closed"], s)
  ELSE [r EXCEPT !.sockets[s].status = "closed", !.sockets[s].sendBuffer = <<>>]

\* ------------------------------------------------------------ simple-peer
LiveStatuses == {"new", "negotiating", "open"}

\* peer.destroy(): no-op on a destroyed peer; otherwise the peer is destroyed and
\* its 'close' event is emitted from a microtask, i.e. after the calling handler.
PeerDestroy(r, p) ==
  IF r.peers[p].status \in LiveStatuses
  THEN [r EXCEPT !.peers[p].status = "destroyed", !.closeQueued = TRUE]
  ELSE r

\* peer.signal(data): an offer starts the negotiation of a fresh responder; on a
\* destroyed peer signal() throws.
PeerSignal(r, p, kind) ==
  IF r.peers[p].status = "destroyed" THEN [r EXCEPT !.threw = TRUE]
  ELSE IF kind = "offer" /\ r.peers[p].status = "new"
       THEN [r EXCEPT !.peers[p].status = "negotiating"]
       ELSE r

\* A 'close' listener that reports the closed channel as a failure.
OnPeerClose_ToError(r) == SetConnectionState(AddLog(r), "error")

\* peer.on('close')
OnPeerClose(r) == SetConnectionState(AddLog(r), "disconnected")

\* peer.on('error')
OnPeerError(r, msg) == SetConnectionState(SetError(AddLog(r), msg), "error")

\* The microtask queue after a handler: the 'close' of a peer it destroyed.
RunMicrotasks(r) ==
  IF r.closeQueued THEN [OnPeerClose(r) EXCEPT !.closeQueued = FALSE] ELSE r

\* ------------------------------------------------------------ the hook's functions
\* sendToPeer(message): peer.send() throws while the data channel is not open.
SendToPeer(r, type, arg) ==
  IF r.peerRef # 0 /\ r.peers[r.peerRef].status # "destroyed"
  THEN IF r.peers[r.peerRef].status = "open"
       THEN [r EXCEPT !.sent = Append(@, Msg("dc", r.peerRef, type, "peer", arg))]
       ELSE [r EXCEPT !.threw = TRUE]
  ELSE r

\* requestManifest()
RequestManifest(r) == SendToPeer(AddLog(r), "request-manifest", <<>>)

\* requestPhoto(photoId, quality, maxDimension)
RequestPhoto(r, photoId, quality, maxDimension) ==
  SendToPeer(AddLog(r), "request-photo", <<photoId, quality, maxDimension>>)

\* The object URLs held by a photoData map.
UrlsOf(pd) == {pd[i] : i \in PhotoIds} \ {0}

\* cleanup(), with the photoData its closure holds.
Cleanup(r, pd) ==
  LET r1 == IF r.peerRef # 0
            THEN [PeerDestroy(r, r.peerRef) EXCEPT !.peerRef = 0]
            ELSE r
      r2 == IF r1.signalingSocketRef # 0
            THEN [SocketDisconnect(r1, r1.signalingSocketRef) EXCEPT !.signalingSocketRef = 0]
            ELSE r1
  IN [r2 EXCEPT !.revoked = @ \cup UrlsOf(pd)]

\* A disconnect() that sets the state before tearing down, so that a listener
\* run by the teardown has the last word.
Disconnect_StateFirst(r) ==
  Cleanup(SetConnectionState(AddLog(r), "disconnected"), r.photoData)

\* disconnect()
Disconnect(r) == SetConnectionState(Cleanup(AddLog(r), r.photoData), "disconnected")

\* connect(signalingServer, roomId): s is the socket io() returns; its listeners
\* close over the connectionState and the cleanup of the render connect was
\* memoized in.
Connect(r, s, roomId, closurePd) ==
  LET r1 == SetError(SetConnectionState(AddLog(r), "connecting"), NoError)
  IN [r1 EXCEPT !.sockets[s] = [status |-> "opening", room |-> roomId,
                                closureState |-> r.connectionState,
                                closurePhotoData |-> closurePd,
                                sendBuffer |-> <<>>],
                !.signalingSocketRef = s]

\* socket.on('connect')
OnSocketConnect(r, s) == Emit(AddLog(r), s, "join-room", "server", r.sockets[s].room)

\* Socket.onconnect of socket.io-client: the socket becomes connected, the
\* 'connect' listeners run and the sendBuffer is written out.  Releases differ
\* in the order of the two (emitBuffered() before or after the 'connect' event):
\* bufferedFirst picks it.
OnTransportOpen(r, s, bufferedFirst) ==
  LET opened == [r EXCEPT !.sockets[s].status = "connected", !.sockets[s].sendBuffer = <<>>]
      EmitBuffered(x) == [x EXCEPT !.sent = @ \o r.sockets[s].sendBuffer]
  IN IF bufferedFirst
     THEN OnSocketConnect(EmitBuffered(opened), s)
     ELSE EmitBuffered(OnSocketConnect(opened, s))

\* createPeerConnection(initiator, desktopId): p is the new SimplePeer.
CreatePeerConnection(r, p, initiator, desktopId, s) ==
  [AddLog(r) EXCEPT !.peers[p] = [status |-> "new", desktopId |-> desktopId,
                                  socket |-> s, initiator |-> initiator],
                    !.peerRef = p]

\* socket.on('room-joined')
OnRoomJoined(r, s, desktopId, p) == CreatePeerConnection(AddLog(r), p, FALSE, desktopId, s)

\* An 'offer' listener that makes the missing peer an initiator.
OnOffer_Initiator(r, s, from, p) ==
  LET r1 == IF r.peerRef = 0
            THEN CreatePeerConnection(AddLog(r), p, TRUE, from, s)
            ELSE AddLog(r)
  IN IF r1.peerRef # 0 THEN PeerSignal(r1, r1.peerRef, "offer") ELSE r1

\* socket.on('offer')
OnOffer(r, s, from, p) ==
  LET r1 == IF r.peerRef = 0
            THEN CreatePeerConnection(AddLog(r), p, FALSE, from, s)
            ELSE AddLog(r)
  IN IF r1.peerRef # 0 THEN PeerSignal(r1, r1.peerRef, "offer") ELSE r1

\* socket.on('answer'), socket.on('ice-candidate'), socket.on('signal')
OnRelayed(r, kind) ==
  IF r.peerRef # 0 THEN PeerSignal(AddLog(r), r.peerRef, kind) ELSE AddLog(r)

\* socket.on('desktop-disconnected'): cleanup is the one connect() closed over.
OnDesktopDisconnected(r, s) ==
  Cleanup(SetConnectionState(SetError(AddLog(r), "Desktop disconnected"), "disconnected"),
          r.sockets[s].closurePhotoData)

\* socket.on('error'): err.message || 'Signaling error'
OnSocketError(r, msg) ==
  SetConnectionState(SetError(AddLog(r), IF msg = "" THEN "Signaling error" ELSE msg), "error")

\* peer.on('signal'): the signal's shape picks the signaling message kind.
SignalKind(shape) ==
  IF shape = "offer" THEN "offer"
  ELSE IF shape = "answer" THEN "answer"
  ELSE IF shape = "candidate" THEN "ice-candidate"
  ELSE "signal"

OnPeerSignal(r, p, shape) ==
  Emit(AddLog(r), r.peers[p].socket, SignalKind(shape), r.peers[p].desktopId, shape)

\* peer.on('connect')
OnPeerConnect(r) ==
  RequestManifest(SetError(SetConnectionState(AddLog(r), "connected"), NoError))

\* ------------------------------------------------------------ data channel frames
\* A frame is a JSON control record or raw bytes.  `kind` is the record's type
\* ("binary" for a frame JSON.parse rejects, "manifest-nophotos" for a manifest
\* record that carries no photos list).
Frame(kind, photoId, mimeType, list, text, chunk) ==
  [kind |-> kind, photoId |-> photoId, mimeType |-> mimeType, photos |-> list,
   text |-> text, chunk |-> chunk]

\* A manifest entry on the wire: {id, name, ...}.
WireEntry(i) == [id |-> i, name |-> 10 + i]
Manifests == UNION {[1..n -> {WireEntry(i) : i \in PhotoIds}] : n \in 0..MaxManifest}

Frames ==
  {Frame("manifest", 0, "none", l, "", 0) : l \in Manifests}
  \cup {Frame("manifest-nophotos", 0, "none", <<>>, "", 0)}
  \cup {Frame("photo-start", i, m, <<>>, "", 0) : i \in PhotoIds, m \in MimeTypes}
  \cup {Frame("photo-complete", i, "none", <<>>, "", 0) : i \in PhotoIds}
  \cup {Frame("pong", 0, "none", <<>>, "", 0)}
  \cup {Frame("error", 0, "none", <<>>, e, 0) : e \in ErrorTexts}
  \cup {Frame("unknown", 0, "none", <<>>, "", 0)}
  \cup {Frame("binary", 0, "none", <<>>, "", c) : c \in ChunkVals \cup {DigitChunk}}

\* JSON.parse(data.toString()) succeeds on every control record, and on a raw
\* chunk whose bytes happen to be JSON text: DigitChunk.
ParsesAsJson(f) == f.kind # "binary" \/ f.chunk = DigitChunk

\* The bytes of a frame as pushed on the buffer: a binary frame's content, 0 for
\* the text of a JSON record.
FrameData(f) == IF f.kind = "binary" THEN f.chunk ELSE 0

\* handlePeerData, case 'manifest': message.photos.map(...)
TransformPhotos(list) ==
  [k \in 1..Len(list) |-> [id |-> list[k].id, filename |-> list[k].name,
                           thumbnail |-> 0, url |-> 0]]

\* A finishPhotoDownload() that clears the descriptor and keeps the buffer.
FinishPhotoDownload_KeepBuffer(r) ==
  IF ~r.currentPhotoRef.set \/ ~r.photoBufferRef.set THEN r
  ELSE [AddLog(r) EXCEPT !.blobs = Append(@, [parts |-> r.photoBufferRef.chunks,
                                              type |-> r.currentPhotoRef.mimeType]),
                         !.photoData[r.currentPhotoRef.id] = Len(r.blobs) + 1,
                         !.currentPhotoRef = NullPhoto]

\* finishPhotoDownload()
FinishPhotoDownload(r) ==
  IF ~r.currentPhotoRef.set \/ ~r.photoBufferRef.set THEN r
  ELSE LET photoInfo == r.currentPhotoRef
           blob == [parts |-> r.photoBufferRef.chunks, type |-> photoInfo.mimeType]
           url == Len(r.blobs) + 1
       IN [AddLog(r) EXCEPT !.blobs = Append(@, blob),
                            !.photoData[photoInfo.id] = url,
                            !.currentPhotoRef = NullPhoto,
                            !.photoBufferRef = NullBuffer]

\* handlePeerData, the catch branch: the frame is taken for a photo chunk.
PushChunk(r, data) ==
  IF r.currentPhotoRef.set
  THEN IF r.photoBufferRef.set
       THEN [r EXCEPT !.photoBufferRef.chunks = Append(@, data)]
       ELSE [r EXCEPT !.threw = TRUE]
  ELSE r

\* A manifest case that merges the new entries into the list it holds.
OnManifest_Merge(r, f) ==
  [AddLog(r) EXCEPT !.photos = @ \o TransformPhotos(f.photos)]

\* handlePeerData, case 'manifest': setPhotos(transformedPhotos)
OnManifest(r, f) == [AddLog(r) EXCEPT !.photos = TransformPhotos(f.photos)]

\* An error case that also moves the session to the error state.
OnErrorMessage_ToError(r, f) ==
  SetConnectionState(SetError(AddLog(r), f.text), "error")

\* handlePeerData, case 'error': setError(message.error)
OnErrorMessage(r, f) == SetError(AddLog(r), f.text)

\* handlePeerData(data)
HandlePeerData(r, f) ==
  CASE f.kind = "manifest" -> OnManifest(r, f)
    [] f.kind = "manifest-nophotos" -> PushChunk(r, FrameData(f))
    [] f.kind = "photo-start" ->
         [AddLog(r) EXCEPT !.currentPhotoRef = [set |-> TRUE, id |-> f.photoId,
                                                mimeType |-> f.mimeType],
                           !.photoBufferRef = [set |-> TRUE, chunks |-> <<>>]]
    [] f.kind = "photo-complete" -> FinishPhotoDownload(AddLog(r))
    [] f.kind = "pong" -> r
    [] f.kind = "error" -> OnErrorMessage(r, f)
    [] f.kind = "binary" ->
         IF ParsesAsJson(f) THEN AddLog(r) ELSE PushChunk(r, FrameData(f))
    [] OTHER -> AddLog(r)

\* ------------------------------------------------------------ the Socket.IO batch path
\* A chunk is a sequence of bytes.
BatchBytes == 0..(NumChunkVals - 1)
BatchChunks == {<<b>> : b \in BatchBytes}
TotalSizes == 1..MaxChunks

\* CryptoJS.MD5(wordArray).toString(): a digest, taken to be collision-free on
\* the byte sequences of the model.
RECURSIVE MD5(_)
MD5(bytes) ==
  IF bytes = <<>> THEN 1
  ELSE MD5(SubSeq(bytes, 1, Len(bytes) - 1)) * (NumChunkVals + 1) + bytes[Len(bytes)] + 1

\* The checksums a server declares.
DeclaredChecksums == {MD5(<<1>>), MD5(<<1, 0>>)}

\* An entry of photoBuffersRef (has = FALSE: the map has no entry).
NoBatchBuffer == [has |-> FALSE, chunks |-> <<>>, checksum |-> 0, mimeType |-> "none"]

\* What the last batch event was and what its listeners did: the bytes that
\* were buffered for its photo, the levels logged at, whether a listener ended
\* by an uncaught exception, and the object URL created (0: none).
BatchEvt(op, photoId, totalSize, checksum, received, logged, thrown, url) ==
  [op |-> op, photoId |-> photoId, totalSize |-> totalSize, checksum |-> checksum,
   received |-> received, logged |-> logged, threw |-> thrown, url |-> url]

\* The bytes of a list of chunks, in order.
RECURSIVE Flatten(_)
Flatten(chunks) ==
  IF chunks = <<>> THEN <<>> ELSE Head(chunks) \o Flatten(Tail(chunks))

\* new Uint8Array(totalSize) filled by fullData.set(chunk, offset): the bytes
\* received, then zeros up to totalSize.
FullData(chunks, totalSize) ==
  [k \in 1..totalSize |-> IF k <= Len(Flatten(chunks)) THEN Flatten(chunks)[k] ELSE 0]

\* socket.on('photo:data'): mimeType "" stands for a message without one.
BatchPhotoData(photoId, chunk, totalSize, checksum, mimeType) ==
  LET fresh == ~photoBuffersRef[photoId].has
      buffer == IF fresh
                THEN [has |-> TRUE, chunks |-> <<>>, checksum |-> checksum,
                      mimeType |-> IF mimeType = "" THEN "image/jpeg" ELSE mimeType]
                ELSE photoBuffersRef[photoId]
  IN /\ Len(buffer.chunks) < MaxChunks
     /\ photoBuffersRef' = [photoBuffersRef EXCEPT ![photoId] =
                              [buffer EXCEPT !.chunks = Append(@, chunk)]]
     /\ batchEvt' = BatchEvt("photo:data", photoId, 0, 0, <<>>,
                            IF fresh THEN {"info"} ELSE {}, FALSE, 0)
     /\ UNCHANGED <<batchPhotos, batchUrls, batchError, sessionVars, legacyVars, scanVars, extVars>>

\* socket.on('photo:complete'): the listener connect() registers logs the event,
\* then the one of setupPhotoHandlers assembles and validates.  fullData.set
\* throws a RangeError when a chunk does not fit in totalSize bytes.
BatchPhotoComplete(photoId, totalSize, checksum) ==
  LET buffer == photoBuffersRef[photoId]
      received == Flatten(buffer.chunks)
      fullData == FullData(buffer.chunks, totalSize)
      url == Len(batchUrls) + 1
  IN IF ~buffer.has
     THEN /\ batchEvt' = BatchEvt("photo:complete", photoId, totalSize, checksum, <<>>,
                                 {"info", "error"}, FALSE, 0)
          /\ UNCHANGED <<photoBuffersRef, batchPhotos, batchUrls, batchError,
                         sessionVars, legacyVars, scanVars, extVars>>
     ELSE IF Len(received) > totalSize
     THEN /\ batchEvt' = BatchEvt("photo:complete", photoId, totalSize, checksum, received,
                                 {"info"}, TRUE, 0)
          /\ UNCHANGED <<photoBuffersRef, batchPhotos, batchUrls, batchError,
                         sessionVars, legacyVars, scanVars, extVars>>
     ELSE IF MD5(fullData) # checksum
     THEN /\ batchEvt' = BatchEvt("photo:complete", photoId, totalSize, checksum, received,
                                 {"info", "error"}, FALSE, 0)
          /\ photoBuffersRef' = [photoBuffersRef EXCEPT ![photoId] = NoBatchBuffer]
          /\ UNCHANGED <<batchPhotos, batchUrls, batchError, sessionVars, legacyVars, scanVars, extVars>>
     ELSE /\ Len(batchUrls) < MaxBatchUrls
          /\ batchUrls' = Append(batchUrls, [bytes |-> fullData, type |-> buffer.mimeType,
                                             revoked |-> FALSE])
          /\ batchPhotos' = [k \in 1..Len(batchPhotos) |->
                               IF batchPhotos[k].id = photoId
                               THEN [batchPhotos[k] EXCEPT !.url = url, !.thumbnail = url]
                               ELSE batchPhotos[k]]
          /\ photoBuffersRef' = [photoBuffersRef EXCEPT ![photoId] = NoBatchBuffer]
          /\ batchEvt' = BatchEvt("photo:complete", photoId, totalSize, checksum, received,
                                 {"info"}, FALSE, url)
          /\ UNCHANGED <<batchError, sessionVars, legacyVars, scanVars, extVars>>

\* The manifests of the batch path: lists of entries without resources.
BatchEntry(i) == [id |-> i, url |-> 0, thumbnail |-> 0]
BatchManifests == {<<>>, <<BatchEntry(1)>>, <<BatchEntry(1), BatchEntry(2)>>}

\* The acknowledgment of manifest:request, without an error: the old entries'
\* object URLs are revoked and the list is replaced.
BatchManifestResponse(list) ==
  LET old == {batchPhotos[k].url : k \in 1..Len(batchPhotos)}
               \cup {batchPhotos[k].thumbnail : k \in 1..Len(batchPhotos)}
  IN /\ batchPhotos' = list
     /\ batchUrls' = [n \in 1..Len(batchUrls) |->
                        IF n \in old THEN [batchUrls[n] EXCEPT !.revoked = TRUE]
                        ELSE batchUrls[n]]
     /\ batchEvt' = BatchEvt("manifest", 0, 0, 0, <<>>, {"info"}, FALSE, 0)
     /\ UNCHANGED <<photoBuffersRef, batchError, sessionVars, legacyVars, scanVars, extVars>>

\* The acknowledgment of manifest:request with an error.
BatchManifestError(msg) ==
  /\ batchError' = msg
  /\ batchEvt' = BatchEvt("manifest-error", 0, 0, 0, <<>>, {"error"}, FALSE, 0)
  /\ UNCHANGED <<photoBuffersRef, batchPhotos, batchUrls, sessionVars, legacyVars, scanVars, extVars>>

\* ------------------------------------------------------------ the legacy WebSocket hook
\* A MANIFEST_RESPONSE message: has = FALSE stands for one without a photos field.
LegacyMessages ==
  {[has |-> TRUE, photos |-> l] : l \in Manifests} \cup {[has |-> FALSE, photos |-> <<>>]}

\* handleMessage, case 'MANIFEST_RESPONSE': setPhotos(() => message.photos || []).
LegacyManifestResponse(message) ==
  /\ legacyPhotos' = IF message.has THEN message.photos ELSE <<>>
  /\ lastLegacy' = message
  /\ UNCHANGED <<sessionVars, batchVars, scanVars, extVars>>

\* ------------------------------------------------------------ the pairing scanner (QRScanner)
\* Text is a sequence of characters.
Webrtc == <<"w", "e", "b", "r", "t", "c">>
Websocket == <<"w", "e", "b", "s", "o", "c", "k", "e", "t">>
WsHost == <<"w", "s", ":", "/", "/", "h">>
WssHost == <<"w", "s", "s", ":", "/", "/", "h">>
HttpHost == <<"h", "t", "t", "p", ":", "/", "/", "h">>
WsBare == <<"w", "s", ":", "/", "/">>
WssBare == <<"w", "s", "s", ":", "/", "/">>
Blank == <<" ">>
HexDigits == {"0", "1", "2", "3", "4", "5", "6", "7", "8", "9",
              "a", "b", "c", "d", "e", "f", "A", "B", "C", "D", "E", "F"}
LineTerminators == {"\n", "\r"}
Whitespace == {" ", "\t", "\n", "\r"}

\* A JSON value of a payload field: a string, a number (s: its decimal text), an
\* array (s: the text String(array) gives, its elements joined by commas), or
\* no field at all.
Str(cs) == [t |-> "string", s |-> cs]
Num(cs) == [t |-> "number", s |-> cs]
Arr(cs) == [t |-> "array", s |-> cs]
Absent == [t |-> "absent", s |-> <<>>]

\* !value is false: a non-empty string, a number other than 0, any array.
Truthy(v) ==
  CASE v.t = "string" -> v.s # <<>>
    [] v.t = "number" -> v.s # <<"0">>
    [] v.t = "array" -> TRUE
    [] OTHER -> FALSE

\* RegExp.prototype.test(value) converts its argument with String().
ToText(v) == v.s

\* /^wss?:\/\/.+/ : "." matches any character but a line terminator.
MatchesServerPattern(cs) ==
  \E pre \in {WsBare, WssBare} :
    /\ Len(cs) > Len(pre)
    /\ SubSeq(cs, 1, Len(pre)) = pre
    /\ cs[Len(pre) + 1] \notin LineTerminators

\* /^[a-f0-9]+$/i
MatchesRoomPattern(cs) == Len(cs) >= 1 /\ \A k \in 1..Len(cs) : cs[k] \in HexDigits

\* String.prototype.trim()
RECURSIVE Trim(_)
Trim(cs) ==
  IF cs = <<>> THEN cs
  ELSE IF Head(cs) \in Whitespace THEN Trim(Tail(cs))
  ELSE IF cs[Len(cs)] \in Whitespace THEN Trim(SubSeq(cs, 1, Len(cs) - 1))
  ELSE cs

\* What JSON.parse gives for a scanned text: json is "object" for an object with
\* the three fields below, "null" for the text null, "invalid" for a text that
\* is not JSON.
Payload(json, type, signalingServer, roomId) ==
  [json |-> json, type |-> type, signalingServer |-> signalingServer, roomId |-> roomId]
NoPayload == Payload("none", Absent, Absent, Absent)

\* validateQRPayload(payload): the message of the error it throws, "ok" when it
\* returns true.
ValidateQRPayload(payload) ==
  IF ~Truthy(payload.type) \/ payload.type # Str(Webrtc)
    THEN "Invalid QR code format - expected WebRTC connection"
  ELSE IF ~Truthy(payload.signalingServer) THEN "Missing signaling server URL"
  ELSE IF ~Truthy(payload.roomId) THEN "Missing room ID"
  ELSE IF ~MatchesServerPattern(ToText(payload.signalingServer))
    THEN "Invalid signaling server URL - must start with ws:// or wss://"
  ELSE IF ~MatchesRoomPattern(ToText(payload.roomId)) THEN "Invalid room ID format"
  ELSE "ok"

\* JSON.parse(text) followed by validateQRPayload(payload), as in the try
\* blocks of handleSuccess and handleFileUpload: the message of the error
\* caught, "ok" when none is thrown.
ParseAndValidate(payload) ==
  CASE payload.json = "invalid" -> "Unexpected token"
    [] payload.json = "null" -> "Cannot read properties of null"
    [] OTHER -> ValidateQRPayload(payload)

\* What the last scanner step handled: the input, whether onScanSuccess was
\* invoked and with which payload, whether onScanError was invoked.
ScanEvt(op, input, success, delivered, failed) ==
  [op |-> op, input |-> input, success |-> success, delivered |-> delivered,
   failed |-> failed]

\* startScanning() and the effect that initializes the camera, the camera
\* starting.
StartScanning ==
  /\ ~scanner.scanning
  /\ scanner' = [scanner EXCEPT !.scanning = TRUE, !.html5QrCodeRef = TRUE,
                                !.error = NoError]
  /\ scanEvt' = ScanEvt("startScanning", NoPayload, FALSE, NoPayload, FALSE)
  /\ UNCHANGED <<sessionVars, batchVars, legacyVars, extVars>>

\* handleSuccess(decodedText): the camera decoded a QR code.  On a valid payload
\* stopScanning() asks the camera to stop, then onScanSuccess(payload) is called.
HandleSuccess(payload) ==
  LET result == ParseAndValidate(payload)
  IN /\ scanner.scanning /\ scanner.html5QrCodeRef /\ ~scanner.stopPending
     /\ result # "ok" => scanner.timers < MaxTimers
     /\ scanner' = IF result = "ok"
                   THEN [scanner EXCEPT !.stopPending = TRUE]
                   ELSE [scanner EXCEPT !.error = result, !.timers = @ + 1]
     /\ scanEvt' = ScanEvt("camera", payload, result = "ok",
                           IF result = "ok" THEN payload ELSE NoPayload, result # "ok")
     /\ UNCHANGED <<sessionVars, batchVars, legacyVars, extVars>>

\* html5QrCode.stop() resolved.
ScannerStopped ==
  /\ scanner.stopPending
  /\ scanner' = [scanner EXCEPT !.stopPending = FALSE, !.html5QrCodeRef = FALSE,
                                !.scanning = FALSE, !.error = NoError]
  /\ scanEvt' = ScanEvt("stopped", NoPayload, FALSE, NoPayload, FALSE)
  /\ UNCHANGED <<sessionVars, batchVars, legacyVars, extVars>>

\* setTimeout(() => setError(null), 3000) of handleSuccess fires.
ErrorTimeout ==
  /\ scanner.timers > 0
  /\ scanner' = [scanner EXCEPT !.timers = @ - 1, !.error = NoError]
  /\ scanEvt' = ScanEvt("errorTimeout", NoPayload, FALSE, NoPayload, FALSE)
  /\ UNCHANGED <<sessionVars, batchVars, legacyVars, extVars>>

\* handleFileUpload(event): the uploaded image holds a QR code with this text.
HandleFileUpload(payload) ==
  LET result == ParseAndValidate(payload)
  IN /\ scanner' = [scanner EXCEPT !.error = IF result = "ok" THEN NoError ELSE result]
     /\ scanEvt' = ScanEvt("upload", payload, result = "ok",
                           IF result = "ok" THEN payload ELSE NoPayload, result # "ok")
     /\ UNCHANGED <<sessionVars, batchVars, legacyVars, extVars>>

\* handleManualSubmit(e): manualServer and manualToken are the two text inputs.
HandleManualSubmit(manualServer, manualToken) ==
  LET payload == Payload("object", Str(Webrtc), Str(Trim(manualServer)),
                         Str(Trim(manualToken)))
      result == IF manualServer = <<>> \/ manualToken = <<>>
                THEN "Both signaling server and room ID are required"
                ELSE ValidateQRPayload(payload)
  IN /\ scanner' = [scanner EXCEPT !.error = IF result = "ok" THEN NoError ELSE result]
     /\ scanEvt' = ScanEvt("manual", payload, result = "ok",
                           IF result = "ok" THEN payload ELSE NoPayload, result # "ok")
     /\ UNCHANGED <<sessionVars, batchVars, legacyVars, extVars>>

\* ------------------------------------------------------------ saved connection (lib/webrtcConnection)
\* Times are in seconds: Date.now() and the row's last_connected_at both count
\* from the same epoch, and only their difference is used.
MaxAge == 90 * 24 * 60 * 60
Delays == {1, MaxAge - 1}
Pairings == {[signalingServer |-> "wss://a", roomId |-> "roomA", deviceName |-> "Desktop"],
             [signalingServer |-> "wss://b", roomId |-> "roomB", deviceName |-> "Desktop"]}
RemoteOutcomes == {"ok", "error", "throw"}

NoRecord == [has |-> FALSE, signalingServer |-> "none", roomId |-> "none",
             deviceName |-> "none", at |-> 0]
NoData == [has |-> FALSE, signalingServer |-> "none", roomId |-> "none",
           deviceName |-> "none", lastConnectedAt |-> 0]
RecordOf(info, at) == [has |-> TRUE, signalingServer |-> info.signalingServer,
                       roomId |-> info.roomId, deviceName |-> info.deviceName, at |-> at]
DataOf(rec) == [has |-> TRUE, signalingServer |-> rec.signalingServer, roomId |-> rec.roomId,
                deviceName |-> rec.deviceName, lastConnectedAt |-> rec.at]
Returned(st, success, data, source) ==
  [store |-> st, success |-> success, data |-> data, source |-> source]
StoreEvt(op, outcome, before, ret) ==
  [op |-> op, outcome |-> outcome, before |-> before, success |-> ret.success,
   data |-> ret.data, source |-> ret.source]

\* saveToLocalStorage(connectionInfo)
SaveToLocalStorage(st, info) == [st EXCEPT !.local = RecordOf(info, st.now)]

\* clearLocalStorage()
ClearLocalStorage(st) == [st EXCEPT !.local = NoRecord]

\* the age test of the webrtc_connections row
RemoteFresh_Late(age) == age <= MaxAge + 1
RemoteFresh(age) == age < MaxAge

\* the age test of the localStorage item
LocalExpired(age) == age > MaxAge

\* loadFromLocalStorage(): the new store and the data returned
LoadFromLocalStorage(st) ==
  IF ~st.local.has THEN Returned(st, TRUE, NoData, "none")
  ELSE IF LocalExpired(st.now - st.local.at)
       THEN Returned(ClearLocalStorage(st), TRUE, NoData, "none")
       ELSE Returned(st, TRUE, DataOf(st.local), "local")

\* saveWebRTCConnection(connectionInfo); outcome is what the upsert does
SaveWebRTCConnection(st, info, outcome) ==
  IF ~st.user THEN Returned(SaveToLocalStorage(st, info), TRUE, NoData, "none")
  ELSE IF outcome = "ok"
       THEN Returned(SaveToLocalStorage([st EXCEPT !.remote = RecordOf(info, st.now)], info),
                     TRUE, NoData, "none")
       ELSE Returned(SaveToLocalStorage(st, info), FALSE, NoData, "none")

\* loadWebRTCConnection(); outcome is what the select does
LoadWebRTCConnection(st, outcome) ==
  LET fromLocal == LoadFromLocalStorage(st) IN
  IF st.user /\ outcome = "throw"
  THEN [fromLocal EXCEPT !.success = fromLocal.data.has]
  ELSE IF st.user /\ outcome = "ok" /\ st.remote.has /\ RemoteFresh(st.now - st.remote.at)
       THEN Returned(st, TRUE, DataOf(st.remote), "remote")
       ELSE fromLocal

\* deleteWebRTCConnection(); outcome is what the delete does
DeleteWebRTCConnection(st, outcome) ==
  LET st1 == IF st.user /\ outcome = "ok" THEN [st EXCEPT !.remote = NoRecord] ELSE st
  IN Returned(ClearLocalStorage(st1), ~(st.user /\ outcome = "throw"), NoData, "none")

\* updateLastConnected(); outcome is what the update does
UpdateLastConnected(st, outcome) ==
  IF ~st.user THEN Returned(st, FALSE, NoData, "none")
  ELSE IF outcome = "ok"
       THEN Returned(IF st.remote.has THEN [st EXCEPT !.remote.at = st.now] ELSE st,
                     TRUE, NoData, "none")
       ELSE Returned(st, FALSE, NoData, "none")

\* what the caller sees of the outcome: none when no remote call is made
Seen(st, outcome) == IF st.user THEN outcome ELSE "none"

\* ------------------------------------------------------------ device connections (lib/deviceConnections)
Credentials == {"credA", "credB"}
DeviceOutcomes == {"ok", "error"}
NoCredential == "none"

\* saveDeviceConnection(deviceName, serverAddress, serverPort, authToken)
SaveDeviceConnection(d, cred, outcome) ==
  IF d.user /\ outcome = "ok" THEN [d EXCEPT !.remote = cred, !.touched = FALSE] ELSE d

\* loadDeviceConnection(): the credentials of { success: true, data }, or none
LoadDeviceConnection(d, outcome) ==
  IF d.user /\ outcome = "ok" THEN d.remote ELSE NoCredential

\* deleteDeviceConnection()
DeleteDeviceConnection(d, outcome) ==
  IF d.user /\ outcome = "ok" THEN [d EXCEPT !.remote = NoCredential, !.touched = FALSE] ELSE d

\* updateLastConnected() of lib/deviceConnections
DeviceUpdateLastConnected(d, outcome) ==
  IF d.user /\ outcome = "ok" /\ d.remote # NoCredential THEN [d EXCEPT !.touched = TRUE] ELSE d

\* ------------------------------------------------------------ usePhotoSync (WebSocket, device token)
WsIds == 1..MaxWebSockets
CloseCodes == {1000, 1006}
AuthFailureReasons == {"TOKEN_REVOKED", "TOKEN_EXPIRED"}
ServerErrorCodes == {"AUTH_TIMEOUT", "OTHER"}
NoWs == [readyState |-> "unused", timeout |-> FALSE, closing |-> "none", timedOut |-> FALSE]
WsMsg(type, success, reason) == [type |-> type, success |-> success, reason |-> reason]
WsMessages ==
  {WsMsg("AUTH_RESPONSE", TRUE, "none"), WsMsg("AUTH_REVOKED", FALSE, "none")}
    \cup {WsMsg("AUTH_RESPONSE", FALSE, r) : r \in AuthFailureReasons}
    \cup {WsMsg("ERROR", FALSE, c) : c \in ServerErrorCodes}
WsEvt(op, sock, code, attempt, msgs) ==
  [op |-> op, sock |-> sock, code |-> code, attempt |-> attempt, sent |-> msgs]

\* The hook, its sockets and the device store as one record.
WsCur == [h |-> wsHook, socks |-> wsSockets, dev |-> deviceStore, sent |-> <<>>]

WsSetState(w, st) == [w EXCEPT !.h.connectionState = st]
WsSetError(w, e) == [w EXCEPT !.h.error = e]

\* ws.send(message) on socket s
WsSend(w, s, type) == [w EXCEPT !.sent = Append(@, [sock |-> s, type |-> type])]

\* ws.close(): a socket still connecting fails (error, then close 1006), an
\* open one starts the closing handshake; otherwise nothing happens.
WsClose(w, s) ==
  IF w.socks[s].readyState = "CONNECTING"
  THEN [w EXCEPT !.socks[s].readyState = "CLOSING", !.socks[s].closing = "failed"]
  ELSE IF w.socks[s].readyState = "OPEN"
       THEN [w EXCEPT !.socks[s].readyState = "CLOSING", !.socks[s].closing = "requested"]
       ELSE w

\* requestManifest()
WsRequestManifest(w) ==
  IF w.h.wsRef # 0 /\ w.socks[w.h.wsRef].readyState = "OPEN"
  THEN WsSend(w, w.h.wsRef, "REQUEST_MANIFEST") ELSE w

\* connect(serverAddress, port, token), up to its await of saveDeviceConnection:
\* the call that found no socket is suspended with its credentials
WsHookConnectBegin(w, cred) ==
  IF w.h.wsRef # 0 THEN w ELSE [w EXCEPT !.h.pending = Append(@, cred)]

\* connect(), from the point where saveDeviceConnection has answered; s is the
\* new WebSocket
WsHookConnectResume(w, s, cred, outcome) ==
  LET w1 == [w EXCEPT !.dev = [SaveDeviceConnection(@, cred, outcome) EXCEPT !.local = cred]]
      w2 == WsSetError(WsSetState(w1, "connecting"), NoError)
  IN [w2 EXCEPT !.socks[s] = [readyState |-> "CONNECTING", timeout |-> TRUE,
                              closing |-> "none", timedOut |-> FALSE],
                !.h.wsRef = s]

\* connect(serverAddress, port, token), when nothing else runs while it awaits
\* the save
WsHookConnect(w, s, cred, outcome) ==
  IF w.h.wsRef # 0 THEN w ELSE WsHookConnectResume(w, s, cred, outcome)

\* connectionTimeout, 10 s after connect()
OnConnectionTimeout(w, s) ==
  LET w1 == [w EXCEPT !.socks[s].timeout = FALSE] IN
  IF w1.socks[s].readyState # "OPEN"
  THEN WsClose([WsSetState(WsSetError(w1, "timeout"), "error") EXCEPT !.socks[s].timedOut = TRUE], s)
  ELSE w1

\* ws.onopen
OnWsOpen(w, s) ==
  WsSend(WsSetState([w EXCEPT !.socks[s].timeout = FALSE], "authenticating"), s, "AUTH")

\* handleMessage(message)
WsHandleMessage(w, m, outcome) ==
  IF m.type = "AUTH_RESPONSE" /\ m.success
  THEN WsRequestManifest([WsSetError(WsSetState(w, "connected"), NoError)
                            EXCEPT !.dev = DeviceUpdateLastConnected(@, outcome)])
  ELSE IF m.type = "AUTH_RESPONSE"
  THEN LET w1 == [WsSetState(WsSetError(w, m.reason), "error") EXCEPT !.h.authFailed = TRUE]
       IN IF w1.h.wsRef # 0 THEN WsClose(w1, w1.h.wsRef) ELSE w1
  ELSE IF m.type = "AUTH_REVOKED"
  THEN [WsSetState(WsSetError(w, "revoked"), "error")
          EXCEPT !.h.authFailed = TRUE,
                 !.dev = [DeleteDeviceConnection(@, outcome) EXCEPT !.local = NoCredential]]
  ELSE IF m.reason = "AUTH_TIMEOUT"
  THEN WsSetState(WsSetError(w, "Authentication failed"), "error")
  ELSE WsSetError(w, "server")

\* ws.onerror
OnWsError(w, s) ==
  WsSetState(WsSetError([w EXCEPT !.socks[s].timeout = FALSE], "unreachable"), "error")

\* scheduleReconnect()
ScheduleReconnect(w) ==
  IF w.h.reconnectTimeoutRef # "none" THEN w ELSE [w EXCEPT !.h.reconnectTimeoutRef = "armed"]

\* ws.onclose
OnWsClose(w, s, code) ==
  LET w1 == WsSetState([w EXCEPT !.socks[s].timeout = FALSE, !.socks[s].readyState = "CLOSED",
                                 !.h.wsRef = 0], "disconnected")
  IN IF code # 1000 THEN ScheduleReconnect(w1) ELSE w1

\* the reconnect timer of scheduleReconnect, 5 s later; s is the WebSocket a
\* connect() would make
OnReconnectTimer(w, s, loadOutcome, saveOutcome) ==
  LET w1 == [w EXCEPT !.h.reconnectTimeoutRef = "none"]
      remote == LoadDeviceConnection(w1.dev, loadOutcome)
  IN IF remote # NoCredential THEN WsHookConnect(w1, s, remote, saveOutcome)
     ELSE IF w1.dev.local # NoCredential THEN WsHookConnect(w1, s, w1.dev.local, saveOutcome)
     ELSE w1

\* disconnect(): clearTimeout leaves the timer id in reconnectTimeoutRef
WsHookDisconnect(w, outcome) ==
  LET w1 == IF w.h.reconnectTimeoutRef # "none" THEN [w EXCEPT !.h.reconnectTimeoutRef = "cleared"]
            ELSE w
      w2 == IF w1.h.wsRef # 0 THEN [WsClose(w1, w1.h.wsRef) EXCEPT !.h.wsRef = 0] ELSE w1
      w3 == [w2 EXCEPT !.dev = [DeleteDeviceConnection(@, outcome) EXCEPT !.local = NoCredential]]
  IN WsSetError(WsSetState(w3, "disconnected"), NoError)

\* ------------------------------------------------------------ WebSocketClient (lib/WebSocketClient)
\* Each connect() that finds no connectPromise makes one WebSocket, one promise
\* and one 15-second timer; socket n, promise n and timer n belong together,
\* as the closures of connect() tie them.
ClientSocketIds == 1..MaxClientSockets
MaxReconnectAttempts == 5
RequestTypes == {"REQUEST_MANIFEST"}
ClientMessages == {"AUTH_SUCCESS", "AUTH_FAILED", "NOT_AUTHENTICATED", "MANIFEST_RESPONSE"}
NoClientSocket == [readyState |-> "unused", closing |-> "none", timer |-> "none",
                   promise |-> "none", authSent |-> FALSE, authed |-> FALSE]
ClientEvt(op, sock, type, transmitted, on, thrown) ==
  [op |-> op, sock |-> sock, type |-> type, transmitted |-> transmitted, on |-> on,
   threw |-> thrown]

\* The client and its sockets as one record; tx: the message the step
\* transmitted and the socket it went out on; threw: an exception left a handler.
ClientCur == [c |-> client, socks |-> clientSockets,
              tx |-> [sent |-> FALSE, type |-> "none", on |-> 0], threw |-> FALSE]

\* resolve() / reject(): a settled promise stays as it is
Settle(k, s, how) ==
  IF k.socks[s].promise = "pending" THEN [k EXCEPT !.socks[s].promise = how] ELSE k

\* clearTimeout(connectTimeout)
ClearConnectTimeout(k, s) ==
  IF k.socks[s].timer = "armed" THEN [k EXCEPT !.socks[s].timer = "done"] ELSE k

\* WebSocket.close() of socket s
SocketClose(k, s) ==
  IF k.socks[s].readyState = "CONNECTING"
  THEN [k EXCEPT !.socks[s].readyState = "CLOSING", !.socks[s].closing = "failed"]
  ELSE IF k.socks[s].readyState = "OPEN"
       THEN [k EXCEPT !.socks[s].readyState = "CLOSING", !.socks[s].closing = "requested"]
       ELSE k

\* this.ws.close(): a TypeError when this.ws is null
ThisWsClose(k) ==
  IF k.c.ws = 0 THEN [k EXCEPT !.threw = TRUE] ELSE SocketClose(k, k.c.ws)

\* send(message)
ClientSend(k, type) ==
  IF k.c.ws = 0 \/ k.socks[k.c.ws].readyState # "OPEN" THEN [k EXCEPT !.threw = TRUE]
  ELSE IF ~k.c.authenticated /\ type # "AUTH" THEN [k EXCEPT !.threw = TRUE]
  ELSE [k EXCEPT !.tx = [sent |-> TRUE, type |-> type, on |-> k.c.ws],
                 !.socks[k.c.ws].authSent = @ \/ type = "AUTH"]

\* connect(); s is the WebSocket the promise executor makes
ClientConnect(k, s) ==
  IF k.c.connectPromise # 0 THEN k
  ELSE [k EXCEPT !.c.connectPromise = s, !.c.ws = s, !.c.authenticated = FALSE,
                 !.socks[s] = [readyState |-> "CONNECTING", closing |-> "none",
                               timer |-> "armed", promise |-> "pending",
                               authSent |-> FALSE, authed |-> FALSE]]

\* connectTimeout of socket s, 15 s after its connect()
ClientConnectTimeout(k, s) ==
  LET k1 == [k EXCEPT !.socks[s].timer = "done"] IN
  IF k1.c.authenticated THEN k1
  ELSE LET k2 == ThisWsClose(k1) IN IF k2.threw THEN k2 ELSE Settle(k2, s, "rejected")

\* ws.onopen of socket s
OnClientOpen(k, s) == ClientSend(k, "AUTH")

\* handleMessage(message, connectTimeout, resolve, reject) of socket s; the
\* caller, ws.onmessage, catches what it throws
ClientHandleMessage(k, s, type) ==
  IF type = "AUTH_SUCCESS"
  THEN Settle(ClearConnectTimeout([k EXCEPT !.c.authenticated = TRUE], s), s, "resolved")
  ELSE IF type = "AUTH_FAILED"
  THEN LET k1 == ThisWsClose(ClearConnectTimeout(k, s))
       IN IF k1.threw THEN [k1 EXCEPT !.threw = FALSE] ELSE Settle(k1, s, "rejected")
  ELSE IF type = "NOT_AUTHENTICATED"
  THEN [ThisWsClose([k EXCEPT !.c.authenticated = FALSE]) EXCEPT !.threw = FALSE]
  ELSE k

\* ws.onerror of socket s
OnClientError(k, s) == Settle(ClearConnectTimeout(k, s), s, "rejected")

\* ws.onclose of socket s
OnClientClose(k, s, code) ==
  LET k1 == [k EXCEPT !.socks[s].readyState = "CLOSED", !.c.authenticated = FALSE,
                      !.c.connectPromise = 0]
  IN IF code # 1000 /\ k1.c.reconnectAttempts < MaxReconnectAttempts
     THEN [k1 EXCEPT !.c.reconnectAttempts = @ + 1, !.c.reconnectTimers = @ + 1]
     ELSE k1

\* disconnect()
ClientDisconnect(k) ==
  LET k1 == IF k.c.ws # 0 THEN [SocketClose(k, k.c.ws) EXCEPT !.c.ws = 0] ELSE k
  IN [k1 EXCEPT !.c.authenticated = FALSE, !.c.connectPromise = 0]

\* ------------------------------------------------------------ after a handler
\* The microtasks it queued run; then, if it scheduled a render, React first
\* flushes the passive effect a previous commit left pending: the destructor of
\* useEffect(() => () => cleanup(), [cleanup]) runs whenever `cleanup` changed,
\* i.e. whenever photoData changed, with the cleanup of the render before.
Finish(r, before) ==
  LET rA == RunMicrotasks(r)
      rB == IF rA.effectPending /\ rA.rendered
            THEN [RunMicrotasks(Cleanup(rA, rA.effectPhotoData)) EXCEPT !.effectPending = FALSE]
            ELSE rA
  IN IF rA.photoData # before
     THEN [rB EXCEPT !.effectPending = TRUE, !.effectPhotoData = before]
     ELSE IF rB.effectPending THEN rB ELSE [rB EXCEPT !.effectPhotoData = rB.photoData]

Min(a, b) == IF a < b THEN a ELSE b

Commit(r, evt) ==
  LET f == Finish(r, photoData) IN
  /\ connectionState' = f.connectionState
  /\ error' = f.error
  /\ photos' = f.photos
  /\ photoData' = f.photoData
  /\ signalingSocketRef' = f.signalingSocketRef
  /\ peerRef' = f.peerRef
  /\ currentPhotoRef' = f.currentPhotoRef
  /\ photoBufferRef' = f.photoBufferRef
  /\ sockets' = f.sockets
  /\ peers' = f.peers
  /\ blobs' = f.blobs
  /\ revoked' = f.revoked
  /\ effectPending' = f.effectPending
  /\ effectPhotoData' = f.effectPhotoData
  /\ sent' = f.sent
  /\ threw' = f.threw
  /\ memoPhotoData' = IF f.connectionState # connectionState THEN f.photoData
                      ELSE memoPhotoData
  /\ lastEvt' = evt
  /\ discRun' = IF evt.op = "disconnect" THEN Min(discRun + 1, 2) ELSE 0
  /\ stateBefore' = connectionState
  /\ urlOwner' = IF Len(f.blobs) > Len(blobs) THEN Append(urlOwner, currentPhotoRef.id)
                 ELSE urlOwner
  /\ sessionUrls' = IF evt.op = "connect" THEN {}
                    ELSE sessionUrls \cup ((1..Len(f.blobs)) \ (1..Len(blobs)))

\* ------------------------------------------------------------ initial state
Init ==
  /\ connectionState = "disconnected"
  /\ error = NoError
  /\ photos = <<>>
  /\ photoData = NoPhotoData
  /\ signalingSocketRef = 0
  /\ peerRef = 0
  /\ currentPhotoRef = NullPhoto
  /\ photoBufferRef = NullBuffer
  /\ sockets = [s \in SocketIds |-> NoSocket]
  /\ peers = [p \in PeerIds |-> NoPeer]
  /\ blobs = <<>>
  /\ revoked = {}
  /\ memoPhotoData = NoPhotoData
  /\ effectPending = FALSE
  /\ effectPhotoData = NoPhotoData
  /\ sent = <<>>
  /\ lastEvt = Evt("init", 0, 0)
  /\ lastManifest = <<>>
  /\ prevManifest = <<>>
  /\ legacyPhotos = <<>>
  /\ lastLegacy = [has |-> FALSE, photos |-> <<>>]
  /\ sinceStart = [phase |-> "none", photoId |-> 0, mimeType |-> "none",
                   frames |-> <<>>, pure |-> TRUE, named |-> 0]
  /\ discRun = 0
  /\ stateBefore = "disconnected"
  /\ urlOwner = <<>>
  /\ sessionUrls = {}
  /\ threw = FALSE
  /\ photoBuffersRef = [i \in PhotoIds |-> NoBatchBuffer]
  /\ batchPhotos = <<>>
  /\ batchUrls = <<>>
  /\ batchError = NoError
  /\ batchEvt = BatchEvt("init", 0, 0, 0, <<>>, {}, FALSE, 0)
  /\ scanner = [scanning |-> FALSE, html5QrCodeRef |-> FALSE, error |-> NoError,
                stopPending |-> FALSE, timers |-> 0]
  /\ scanEvt = ScanEvt("init", NoPayload, FALSE, NoPayload, FALSE)
  /\ store = [user |-> TRUE, remote |-> NoRecord, local |-> NoRecord, now |-> 0, advances |-> 0]
  /\ storeEvt = StoreEvt("init", "none", store, Returned(store, TRUE, NoData, "none"))
  /\ lastSaved = NoRecord
  /\ app = [connectionMode |-> "webrtc", seenState |-> "disconnected", forgotten |-> FALSE,
            evt |-> "init"]
  /\ wsHook = [connectionState |-> "disconnected", error |-> NoError, wsRef |-> 0,
               reconnectTimeoutRef |-> "none", authFailed |-> FALSE, pending |-> <<>>]
  /\ wsSockets = [s \in WsIds |-> NoWs]
  /\ deviceStore = [user |-> TRUE, remote |-> NoCredential, local |-> NoCredential,
                    touched |-> FALSE]
  /\ wsEvt = WsEvt("init", 0, 0, FALSE, <<>>)
  /\ client = [ws |-> 0, authenticated |-> FALSE, connectPromise |-> 0, reconnectAttempts |-> 0,
               reconnectTimers |-> 0, disconnected |-> FALSE]
  /\ clientSockets = [s \in ClientSocketIds |-> NoClientSocket]
  /\ clientEvt = ClientEvt("init", 0, "none", FALSE, 0, FALSE)

\* ------------------------------------------------------------ caller operations
FreshSocket == CHOOSE s \in SocketIds : sockets[s].status = "unused" /\ \A t \in 1..(s-1) : sockets[t].status # "unused"
FreshPeer == CHOOSE p \in PeerIds : peers[p].status = "unused" /\ \A q \in 1..(p-1) : peers[q].status # "unused"
HasFreshSocket == \E s \in SocketIds : sockets[s].status = "unused"
HasFreshPeer == \E p \in PeerIds : peers[p].status = "unused"

CallConnect(roomId) ==
  /\ HasFreshSocket
  /\ Commit(Connect(Cur, FreshSocket, roomId, memoPhotoData), Evt("connect", FreshSocket, 0))
  /\ UNCHANGED <<lastManifest, prevManifest, sinceStart, batchVars, legacyVars, scanVars, extVars>>

CallDisconnect ==
  /\ Commit(Disconnect(Cur), Evt("disconnect", 0, 0))
  /\ UNCHANGED <<lastManifest, prevManifest, sinceStart, batchVars, legacyVars, scanVars, extVars>>

CallRequestManifest ==
  /\ Commit(RequestManifest(Cur), Evt("requestManifest", 0, 0))
  /\ UNCHANGED <<lastManifest, prevManifest, sinceStart, batchVars, legacyVars, scanVars, extVars>>

Qualities == {0, 100}
Dimensions == {1, 4096}

CallRequestPhoto(photoId, quality, maxDimension) ==
  /\ Commit(RequestPhoto(Cur, photoId, quality, maxDimension),
            Evt("requestPhoto", 0, 0))
  /\ UNCHANGED <<lastManifest, prevManifest, sinceStart, batchVars, legacyVars, scanVars, extVars>>

\* The scheduler flushes the pending passive effect on its own.
FlushEffect ==
  /\ effectPending
  /\ Commit(Cleanup([Cur EXCEPT !.effectPending = FALSE], effectPhotoData),
            Evt("flushEffect", 0, 0))
  /\ UNCHANGED <<lastManifest, prevManifest, sinceStart, batchVars, legacyVars, scanVars, extVars>>

\* ------------------------------------------------------------ signaling events
\* The transport opens (first connection or automatic reconnect).
SigConnect(s) ==
  /\ sockets[s].status = "opening"
  /\ \E bufferedFirst \in BOOLEAN :
       Commit(OnTransportOpen(Cur, s, bufferedFirst), Evt("sig-connect", s, 0))
  /\ UNCHANGED <<lastManifest, prevManifest, sinceStart, batchVars, legacyVars, scanVars, extVars>>

\* The transport drops; socket.io starts reconnecting.
SigDrop(s) ==
  /\ sockets[s].status = "connected"
  /\ Commit(OnSocketDisconnect([Cur EXCEPT !.sockets[s].status = "opening"], s),
            Evt("sig-disconnect", s, 0))
  /\ UNCHANGED <<lastManifest, prevManifest, sinceStart, batchVars, legacyVars, scanVars, extVars>>

\* reconnectionAttempts are used up: socket.io stops trying (reconnect_failed,
\* which has no listener).
SigGiveUp(s) ==
  /\ sockets[s].status = "opening"
  /\ Commit([Cur EXCEPT !.sockets[s].status = "failed", !.sockets[s].sendBuffer = <<>>],
            Evt("sig-giveup", s, 0))
  /\ UNCHANGED <<lastManifest, prevManifest, sinceStart, batchVars, legacyVars, scanVars, extVars>>

SigRoomJoined(s, desktopId) ==
  /\ sockets[s].status = "connected"
  /\ HasFreshPeer
  /\ Commit(OnRoomJoined(Cur, s, desktopId, FreshPeer), Evt("room-joined", s, FreshPeer))
  /\ UNCHANGED <<lastManifest, prevManifest, sinceStart, batchVars, legacyVars, scanVars, extVars>>

SigOffer(s, from) ==
  /\ sockets[s].status = "connected"
  /\ peerRef # 0 \/ HasFreshPeer
  /\ Commit(OnOffer(Cur, s, from, IF peerRef = 0 THEN FreshPeer ELSE 0),
            Evt("offer", s, IF peerRef = 0 THEN FreshPeer ELSE 0))
  /\ UNCHANGED <<lastManifest, prevManifest, sinceStart, batchVars, legacyVars, scanVars, extVars>>

RelayedKinds == {"answer", "ice-candidate", "signal"}

SigRelayed(s, kind) ==
  /\ sockets[s].status = "connected"
  /\ Commit(OnRelayed(Cur, kind), Evt(kind, s, 0))
  /\ UNCHANGED <<lastManifest, prevManifest, sinceStart, batchVars, legacyVars, scanVars, extVars>>

SigDesktopDisconnected(s) ==
  /\ sockets[s].status = "connected"
  /\ Commit(OnDesktopDisconnected(Cur, s), Evt("desktop-disconnected", s, 0))
  /\ UNCHANGED <<lastManifest, prevManifest, sinceStart, batchVars, legacyVars, scanVars, extVars>>

SigError(s, msg) ==
  /\ sockets[s].status \in {"opening", "connected"}
  /\ Commit(OnSocketError(Cur, msg), Evt("sig-error", s, 0))
  /\ UNCHANGED <<lastManifest, prevManifest, sinceStart, batchVars, legacyVars, scanVars, extVars>>

\* ------------------------------------------------------------ peer events
SignalShapes == {"offer", "answer", "candidate", "renegotiate"}

PeerEmitsSignal(p, shape) ==
  /\ peers[p].status \in {"negotiating", "open"}
  /\ sockets[peers[p].socket].status = "opening"
        => Len(sockets[peers[p].socket].sendBuffer) < MaxBuffered
  /\ Commit(OnPeerSignal(Cur, p, shape), Evt("peer-signal", 0, p))
  /\ UNCHANGED <<lastManifest, prevManifest, sinceStart, batchVars, legacyVars, scanVars, extVars>>

\* The data channel opens.
PeerConnect(p) ==
  /\ peers[p].status = "negotiating"
  /\ Commit(OnPeerConnect([Cur EXCEPT !.peers[p].status = "open"]), Evt("peer-connect", 0, p))
  /\ UNCHANGED <<lastManifest, prevManifest, sinceStart, batchVars, legacyVars, scanVars, extVars>>

\* simple-peer reports every failure through destroy(err): 'error', then 'close'.
PeerError(p, msg) ==
  /\ peers[p].status \in LiveStatuses
  /\ Commit(OnPeerClose(OnPeerError([Cur EXCEPT !.peers[p].status = "destroyed"], msg)),
            Evt("peer-error", 0, p))
  /\ UNCHANGED <<lastManifest, prevManifest, sinceStart, batchVars, legacyVars, scanVars, extVars>>

\* The remote side closes the connection.
PeerClose(p) ==
  /\ peers[p].status \in LiveStatuses
  /\ Commit(OnPeerClose([Cur EXCEPT !.peers[p].status = "destroyed"]), Evt("peer-close", 0, p))
  /\ UNCHANGED <<lastManifest, prevManifest, sinceStart, batchVars, legacyVars, scanVars, extVars>>

\* A frame arrives on an open data channel.
PeerData(p, f) ==
  /\ peers[p].status = "open"
  /\ (f.kind \in {"binary", "manifest-nophotos"} /\ currentPhotoRef.set)
        => Len(photoBufferRef.chunks) < MaxChunks
  /\ (f.kind = "binary" /\ sinceStart.phase = "receiving")
        => Len(sinceStart.frames) < MaxChunks
  /\ (f.kind = "photo-complete" /\ currentPhotoRef.set /\ photoBufferRef.set)
        => Len(blobs) < MaxUrls
  /\ Commit(HandlePeerData(Cur, f), Evt(f.kind, 0, p))
  /\ lastManifest' = IF f.kind = "manifest" THEN f.photos ELSE lastManifest
  /\ prevManifest' = IF f.kind = "manifest" THEN lastManifest ELSE prevManifest
  /\ sinceStart' =
       CASE f.kind = "photo-start" ->
              [phase |-> "receiving", photoId |-> f.photoId, mimeType |-> f.mimeType,
               frames |-> <<>>, pure |-> TRUE, named |-> 0]
         [] f.kind = "binary" /\ sinceStart.phase = "receiving" ->
              [sinceStart EXCEPT !.frames = Append(@, f.chunk)]
         [] f.kind = "manifest-nophotos" /\ sinceStart.phase = "receiving" ->
              [sinceStart EXCEPT !.pure = FALSE]
         [] f.kind = "photo-complete" /\ sinceStart.phase = "receiving" ->
              [sinceStart EXCEPT !.phase = "complete", !.named = f.photoId]
         [] OTHER -> sinceStart
  /\ UNCHANGED <<batchVars, legacyVars, scanVars, extVars>>

\* ------------------------------------------------------------ saved connection: calls
StoreCall(op, outcome, ret, saved) ==
  /\ store' = ret.store
  /\ storeEvt' = StoreEvt(op, Seen(store, outcome), store, ret)
  /\ lastSaved' = saved

CallSave(info, outcome) ==
  /\ StoreCall("save", outcome, SaveWebRTCConnection(store, info, outcome),
               RecordOf(info, store.now))
  /\ UNCHANGED <<sessionVars, batchVars, legacyVars, scanVars, appVars, wsHookVars, clientVars>>

CallLoad(outcome) ==
  /\ StoreCall("load", outcome, LoadWebRTCConnection(store, outcome), lastSaved)
  /\ UNCHANGED <<sessionVars, batchVars, legacyVars, scanVars, appVars, wsHookVars, clientVars>>

CallDelete(outcome) ==
  /\ StoreCall("delete", outcome, DeleteWebRTCConnection(store, outcome), NoRecord)
  /\ UNCHANGED <<sessionVars, batchVars, legacyVars, scanVars, appVars, wsHookVars, clientVars>>

CallUpdateLastConnected(outcome) ==
  /\ StoreCall("touch", outcome, UpdateLastConnected(store, outcome), lastSaved)
  /\ UNCHANGED <<sessionVars, batchVars, legacyVars, scanVars, appVars, wsHookVars, clientVars>>

\* supabase.auth: the user signs in or the session ends
AuthChange ==
  /\ store' = [store EXCEPT !.user = ~@]
  /\ storeEvt' = StoreEvt("auth", "none", store, Returned(store', TRUE, NoData, "none"))
  /\ UNCHANGED <<lastSaved, sessionVars, batchVars, legacyVars, scanVars, appVars, wsHookVars, clientVars>>

\* time passes
Advance(d) ==
  /\ store.advances < MaxAdvances
  /\ store' = [store EXCEPT !.now = @ + d, !.advances = @ + 1]
  /\ storeEvt' = StoreEvt("advance", "none", store, Returned(store', TRUE, NoData, "none"))
  /\ UNCHANGED <<lastSaved, sessionVars, batchVars, legacyVars, scanVars, appVars, wsHookVars, clientVars>>

\* ------------------------------------------------------------ App (App-WebRTC)
\* const { connectionState, disconnect, error: syncError } = activeSync: the
\* hook's while connectionMode is 'webrtc', the disabled legacy stub's otherwise.
AppConnectionState ==
  IF app.connectionMode = "webrtc" THEN connectionState ELSE "disconnected"
SyncError == IF app.connectionMode = "webrtc" THEN error ELSE NoError
PayloadTypes == {"webrtc", "websocket"}

\* webrtcSync.connect(signalingServer, roomId)
AppConnects(roomId) ==
  /\ HasFreshSocket
  /\ Commit(Connect(Cur, FreshSocket, roomId, memoPhotoData), Evt("connect", FreshSocket, 0))
  /\ UNCHANGED <<lastManifest, prevManifest, sinceStart>>

\* handleQRScanSuccess(payload): the scanner is reachable from the
\* not-connected panel and from the error panel.
HandleQRScanSuccess(type, info, outcome) ==
  /\ AppConnectionState = "disconnected" \/ SyncError # NoError
  /\ IF type = "webrtc"
     THEN /\ StoreCall("save", outcome, SaveWebRTCConnection(store, info, outcome),
                       RecordOf(info, store.now))
          /\ AppConnects(info.roomId)
          /\ app' = [app EXCEPT !.evt = "scan", !.forgotten = FALSE]
     ELSE /\ app' = [app EXCEPT !.evt = "scan-rejected"]
          /\ UNCHANGED <<sessionVars, storeVars>>
  /\ UNCHANGED <<batchVars, legacyVars, scanVars, wsHookVars, clientVars>>

\* the test button of the not-connected panel: setConnectionMode('webrtc'),
\* then webrtcSync.connect(SIGNALING_SERVER, roomId)
HandleTestConnect(roomId) ==
  /\ AppConnectionState = "disconnected"
  /\ AppConnects(roomId)
  /\ app' = [app EXCEPT !.evt = "test-connect", !.connectionMode = "webrtc"]
  /\ UNCHANGED <<storeVars, batchVars, legacyVars, scanVars, wsHookVars, clientVars>>

\* useEffect(attemptAutoReconnect, [loading, connectionState, webrtcSync]): the
\* hook returns a new object at every render, so the effect runs after every
\* render in which the App's connectionState is 'disconnected'.
AutoReconnectEffect(outcome) ==
  LET ret == LoadWebRTCConnection(store, outcome) IN
  /\ AppConnectionState = "disconnected"
  /\ StoreCall("load", outcome, ret, lastSaved)
  /\ IF ret.success /\ ret.data.has
     THEN /\ AppConnects(ret.data.roomId)
          /\ app' = [app EXCEPT !.evt = "auto-connect", !.seenState = "disconnected"]
     ELSE /\ app' = [app EXCEPT !.evt = "auto-none", !.seenState = "disconnected"]
          /\ UNCHANGED sessionVars
  /\ UNCHANGED <<batchVars, legacyVars, scanVars, wsHookVars, clientVars>>

\* useEffect(() => { if (connectionState === 'connected') updateLastConnected() },
\* [connectionState])
TouchEffect(outcome) ==
  /\ AppConnectionState = "connected"
  /\ app.seenState # "connected"
  /\ StoreCall("touch", outcome, UpdateLastConnected(store, outcome), lastSaved)
  /\ app' = [app EXCEPT !.evt = "touch", !.seenState = "connected"]
  /\ UNCHANGED <<sessionVars, batchVars, legacyVars, scanVars, wsHookVars, clientVars>>

\* a render with another connectionState: both effects run and do nothing
OtherStateEffects ==
  /\ AppConnectionState \notin {"connected", "disconnected"}
  /\ app.seenState # AppConnectionState
  /\ app' = [app EXCEPT !.evt = "render", !.seenState = AppConnectionState]
  /\ UNCHANGED <<sessionVars, storeVars, batchVars, legacyVars, scanVars, wsHookVars, clientVars>>

\* handleDisconnect(), confirmed; the button is in the panel shown while
\* connecting, authenticating or connected.
HandleDisconnect(outcome) ==
  /\ AppConnectionState \in {"connected", "connecting", "authenticating"}
  /\ StoreCall("delete", outcome, DeleteWebRTCConnection(store, outcome), NoRecord)
  /\ Commit(Disconnect(Cur), Evt("disconnect", 0, 0))
  /\ app' = [app EXCEPT !.evt = "forget", !.forgotten = TRUE, !.connectionMode = "null"]
  /\ UNCHANGED <<lastManifest, prevManifest, sinceStart, batchVars, legacyVars, scanVars, wsHookVars, clientVars>>

\* handleSignOut(); signedOut: supabase.auth.signOut() reported no error
HandleSignOut(outcome, signedOut) ==
  LET ret == DeleteWebRTCConnection(store, outcome) IN
  /\ store.user
  /\ StoreCall("delete", outcome, [ret EXCEPT !.store.user = ~signedOut], NoRecord)
  /\ app' = [app EXCEPT !.evt = "sign-out"]
  /\ UNCHANGED <<sessionVars, batchVars, legacyVars, scanVars, wsHookVars, clientVars>>

\* the user signs in again, or the session expires
AppAuthChange ==
  /\ store' = [store EXCEPT !.user = ~@]
  /\ storeEvt' = StoreEvt("auth", "none", store, Returned(store', TRUE, NoData, "none"))
  /\ app' = [app EXCEPT !.evt = "auth"]
  /\ UNCHANGED <<lastSaved, sessionVars, batchVars, legacyVars, scanVars, wsHookVars, clientVars>>

\* time passes
AppAdvance(d) ==
  /\ store.advances < MaxAppAdvances
  /\ store' = [store EXCEPT !.now = @ + d, !.advances = @ + 1]
  /\ storeEvt' = StoreEvt("advance", "none", store, Returned(store', TRUE, NoData, "none"))
  /\ app' = [app EXCEPT !.evt = "advance"]
  /\ UNCHANGED <<lastSaved, sessionVars, batchVars, legacyVars, scanVars, wsHookVars, clientVars>>

\* ------------------------------------------------------------ usePhotoSync (WebSocket): steps
HasFreshWs == \E s \in WsIds : wsSockets[s].readyState = "unused"
FreshWs == CHOOSE s \in WsIds : wsSockets[s].readyState = "unused" /\ \A t \in 1..(s-1) : wsSockets[t].readyState # "unused"

\* attempt: the step made a new WebSocket
WsCommit(w, op, sock, code) ==
  /\ wsHook' = w.h
  /\ wsSockets' = w.socks
  /\ deviceStore' = w.dev
  /\ wsEvt' = WsEvt(op, sock, code,
                    \E s \in WsIds : wsSockets[s].readyState = "unused" /\ w.socks[s].readyState # "unused",
                    w.sent)
  /\ UNCHANGED <<sessionVars, batchVars, legacyVars, scanVars, storeVars, appVars, clientVars>>

\* the caller invokes connect()
WsCallConnect(cred, outcome) ==
  /\ HasFreshWs
  /\ WsCommit(WsHookConnect([WsCur EXCEPT !.h.authFailed = (@ /\ wsHook.wsRef # 0)],
                            FreshWs, cred, outcome), "connect", FreshWs, 0)

\* the caller invokes connect(), which runs up to its await
WsConnectBegins(cred) ==
  /\ Len(wsHook.pending) < MaxPendingConnects
  /\ WsCommit(WsHookConnectBegin([WsCur EXCEPT !.h.authFailed = (@ /\ wsHook.wsRef # 0)], cred),
              "connect-begin", 0, 0)

\* the reconnect timer fires: its callback loads the credentials and calls
\* connect(), which runs up to its await
WsReconnectTimerBegins(loadOutcome) ==
  LET w1 == [WsCur EXCEPT !.h.reconnectTimeoutRef = "none"]
      remote == LoadDeviceConnection(w1.dev, loadOutcome)
      cred == IF remote # NoCredential THEN remote ELSE w1.dev.local
  IN /\ wsHook.reconnectTimeoutRef = "armed"
     /\ Len(wsHook.pending) < MaxPendingConnects
     /\ WsCommit(IF cred # NoCredential THEN WsHookConnectBegin(w1, cred) ELSE w1,
                 "reconnect-begin", 0, 0)

\* saveDeviceConnection answers the i-th suspended connect(), which goes on
WsConnectResumes(i, outcome) ==
  /\ i \in 1..Len(wsHook.pending)
  /\ HasFreshWs
  /\ WsCommit(WsHookConnectResume(
                [WsCur EXCEPT !.h.pending = SubSeq(@, 1, i - 1) \o SubSeq(@, i + 1, Len(@))],
                FreshWs, wsHook.pending[i], outcome),
              "connect-resume", FreshWs, 0)

\* the caller invokes disconnect()
WsCallDisconnect(outcome) == WsCommit(WsHookDisconnect(WsCur, outcome), "disconnect", 0, 0)

\* the connection is established
WsOpens(s) ==
  /\ wsSockets[s].readyState = "CONNECTING"
  /\ WsCommit(OnWsOpen([WsCur EXCEPT !.socks[s].readyState = "OPEN"], s), "open", s, 0)

\* a message arrives; the browser delivers messages only while the socket is OPEN
WsReceives(s, m, outcome) ==
  /\ wsSockets[s].readyState = "OPEN"
  /\ WsCommit(WsHandleMessage(WsCur, m, outcome), m.type, s, 0)

\* the connection cannot be established, or is lost: error, then close 1006
WsFails(s) ==
  /\ wsSockets[s].readyState \in {"CONNECTING", "OPEN"}
  /\ WsCommit(OnWsClose(OnWsError(WsCur, s), s, 1006), "fail", s, 1006)

\* the server closes the connection with a close code of its own
WsServerCloses(s, code) ==
  /\ wsSockets[s].readyState = "OPEN"
  /\ WsCommit(OnWsClose(WsCur, s, code), "close", s, code)

\* a close() of the client completes.  Closed while connecting, the socket
\* fails (error, close 1006).  Closed while open, the close event carries the
\* code of the close frame the server sent (the echo of ours, or the server's
\* own when it was closing too), or 1006 when the connection is lost first.
WsCloseCompletes(s, code) ==
  /\ wsSockets[s].readyState = "CLOSING"
  /\ IF wsSockets[s].closing = "failed"
     THEN code = 1006 /\ WsCommit(OnWsClose(OnWsError(WsCur, s), s, 1006), "close", s, 1006)
     ELSE WsCommit(OnWsClose(WsCur, s, code), "close", s, code)

WsTimeoutFires(s) ==
  /\ wsSockets[s].timeout
  /\ WsCommit(OnConnectionTimeout(WsCur, s), "timeout", s, 0)

WsReconnectTimerFires(loadOutcome, saveOutcome) ==
  /\ wsHook.reconnectTimeoutRef = "armed"
  /\ HasFreshWs
  /\ WsCommit(OnReconnectTimer(WsCur, FreshWs, loadOutcome, saveOutcome), "reconnect-timer", 0, 0)

\* the page is loaded again: a new hook instance, whose mount effect
\* (attemptAutoConnect) looks for saved credentials
WsPageReload(loadOutcome, saveOutcome) ==
  LET w0 == [WsCur EXCEPT !.h = [connectionState |-> "disconnected", error |-> NoError,
                                  wsRef |-> 0, reconnectTimeoutRef |-> "none",
                                  authFailed |-> FALSE, pending |-> <<>>],
                          !.socks = [s \in WsIds |-> NoWs]]
      remote == LoadDeviceConnection(w0.dev, loadOutcome)
  IN /\ \E s \in WsIds : wsSockets[s].readyState # "unused"
     /\ wsHook' = (IF remote # NoCredential THEN WsHookConnect(w0, 1, remote, saveOutcome)
                   ELSE IF w0.dev.local # NoCredential
                        THEN WsHookConnect(w0, 1, w0.dev.local, saveOutcome)
                        ELSE w0).h
     /\ wsSockets' = (IF remote # NoCredential THEN WsHookConnect(w0, 1, remote, saveOutcome)
                      ELSE IF w0.dev.local # NoCredential
                           THEN WsHookConnect(w0, 1, w0.dev.local, saveOutcome)
                           ELSE w0).socks
     /\ deviceStore' = (IF remote # NoCredential THEN WsHookConnect(w0, 1, remote, saveOutcome)
                        ELSE IF w0.dev.local # NoCredential
                             THEN WsHookConnect(w0, 1, w0.dev.local, saveOutcome)
                             ELSE w0).dev
     /\ wsEvt' = WsEvt("mount", 0, 0, remote # NoCredential \/ w0.dev.local # NoCredential, <<>>)
     /\ UNCHANGED <<sessionVars, batchVars, legacyVars, scanVars, storeVars, appVars, clientVars>>

\* supabase.auth: the user signs in, or the session ends
WsAuthChange ==
  WsCommit([WsCur EXCEPT !.dev.user = ~@], "auth", 0, 0)

\* ------------------------------------------------------------ WebSocketClient: steps
HasFreshClientSocket == \E s \in ClientSocketIds : clientSockets[s].readyState = "unused"
FreshClientSocket ==
  CHOOSE s \in ClientSocketIds : clientSockets[s].readyState = "unused"
                                   /\ \A t \in 1..(s-1) : clientSockets[t].readyState # "unused"

ClientCommit(k, op, sock, type) ==
  /\ client' = k.c
  /\ clientSockets' = k.socks
  /\ clientEvt' = ClientEvt(op, sock, type, k.tx.sent, k.tx.on, k.threw)
  /\ UNCHANGED <<sessionVars, batchVars, legacyVars, scanVars, storeVars, appVars, wsHookVars>>

\* the caller invokes connect()
ClientCallConnect ==
  /\ HasFreshClientSocket
  /\ ClientCommit(ClientConnect([ClientCur EXCEPT !.c.disconnected = FALSE], FreshClientSocket),
                  "connect", FreshClientSocket, "none")

\* the caller invokes disconnect()
ClientCallDisconnect ==
  ClientCommit(ClientDisconnect([ClientCur EXCEPT !.c.disconnected = TRUE]), "disconnect", 0, "none")

\* the caller sends a request (requestManifest, requestBatch)
ClientCallSend(type) == ClientCommit(ClientSend(ClientCur, type), "send", 0, type)

ClientSocketOpens(s) ==
  /\ clientSockets[s].readyState = "CONNECTING"
  /\ ClientCommit(OnClientOpen([ClientCur EXCEPT !.socks[s].readyState = "OPEN"], s),
                  "open", s, "AUTH")

\* a message arrives on an OPEN socket; the server answers an AUTH it received
ClientReceives(s, type) ==
  /\ clientSockets[s].readyState = "OPEN"
  /\ type = "AUTH_SUCCESS" => (clientSockets[s].authSent /\ ~clientSockets[s].authed)
  /\ type = "AUTH_FAILED" => (clientSockets[s].authSent /\ ~clientSockets[s].authed)
  /\ type = "MANIFEST_RESPONSE" => clientSockets[s].authed
  /\ ClientCommit(ClientHandleMessage(
                    [ClientCur EXCEPT !.socks[s].authed = @ \/ type = "AUTH_SUCCESS"], s, type),
                  "message", s, type)

\* the connection cannot be established, or is lost: error, then close 1006
ClientSocketFails(s) ==
  /\ clientSockets[s].readyState \in {"CONNECTING", "OPEN"}
  /\ ClientCommit(OnClientClose(OnClientError(ClientCur, s), s, 1006), "fail", s, "none")

\* the server closes the connection
ClientServerCloses(s, code) ==
  /\ clientSockets[s].readyState = "OPEN"
  /\ ClientCommit(OnClientClose(ClientCur, s, code), "close", s, "none")

\* a close() of the client completes (see WsCloseCompletes)
ClientCloseCompletes(s, code) ==
  /\ clientSockets[s].readyState = "CLOSING"
  /\ IF clientSockets[s].closing = "failed"
     THEN code = 1006 /\ ClientCommit(OnClientClose(OnClientError(ClientCur, s), s, 1006),
                                      "close", s, "none")
     ELSE ClientCommit(OnClientClose(ClientCur, s, code), "close", s, "none")

ClientTimeoutFires(s) ==
  /\ clientSockets[s].timer = "armed"
  /\ ClientCommit(ClientConnectTimeout(ClientCur, s), "timeout", s, "none")

\* the reconnect timer of ws.onclose: this.connect().catch(...)
ClientReconnectTimerFires ==
  /\ client.reconnectTimers > 0
  /\ HasFreshClientSocket
  /\ ClientCommit(ClientConnect([ClientCur EXCEPT !.c.reconnectTimers = @ - 1],
                                FreshClientSocket), "reconnect", FreshClientSocket, "none")

\* ------------------------------------------------------------ time
\* A heartbeat interval elapses.  The hook starts no timer (no setInterval, no
\* setTimeout), so no callback of its own runs and nothing is sent.
HeartbeatTick ==
  /\ Commit(Cur, Evt("heartbeat-tick", 0, 0))
  /\ UNCHANGED <<lastManifest, prevManifest, sinceStart, batchVars, legacyVars, scanVars, extVars>>

\* ------------------------------------------------------------ specifications
\* Spec: the session state machine under every signaling and peer event, in
\* one room with one desktop.  No frame arrives (the frame handlers have the
\* two specifications below), and a peer signals while its socket is connected
\* (signals emitted while the transport is down are in SpecSignaling).
Next ==
  \/ CallConnect("roomA")
  \/ CallDisconnect
  \/ CallRequestManifest
  \/ \E i \in PhotoIds, q \in Qualities, d \in Dimensions : CallRequestPhoto(i, q, d)
  \/ \E s \in SocketIds : SigConnect(s)
  \/ \E s \in SocketIds : SigDrop(s)
  \/ \E s \in SocketIds : SigGiveUp(s)
  \/ \E s \in SocketIds : SigRoomJoined(s, "desk1")
  \/ \E s \in SocketIds : SigOffer(s, "desk1")
  \/ \E s \in SocketIds, k \in RelayedKinds : SigRelayed(s, k)
  \/ \E s \in SocketIds : SigDesktopDisconnected(s)
  \/ \E s \in SocketIds, m \in {"E1", ""} : SigError(s, m)
  \/ \E p \in PeerIds, sh \in SignalShapes :
        /\ peers[p].status # "unused"
        /\ sockets[peers[p].socket].status = "connected"
        /\ PeerEmitsSignal(p, sh)
  \/ \E p \in PeerIds : PeerConnect(p)
  \/ \E p \in PeerIds : PeerError(p, "E1")
  \/ \E p \in PeerIds : PeerClose(p)

Spec == Init /\ [][Next]_vars

\* SpecSignaling: what goes out on the signaling transport, one session at a
\* time, while the transport drops and reconnects and the peer keeps signaling.
NextSignaling ==
  \/ \E room \in {"roomA", "roomB"} : signalingSocketRef = 0 /\ CallConnect(room)
  \/ CallDisconnect
  \/ \E s \in SocketIds : SigConnect(s)
  \/ \E s \in SocketIds : SigDrop(s)
  \/ \E s \in SocketIds : SigGiveUp(s)
  \/ \E s \in SocketIds : SigRoomJoined(s, "desk1")
  \/ \E s \in SocketIds, d \in {"desk1", "desk2"} : SigOffer(s, d)
  \/ \E p \in PeerIds, sh \in SignalShapes : PeerEmitsSignal(p, sh)
  \/ \E p \in PeerIds : PeerConnect(p)
  \/ \E p \in PeerIds : PeerClose(p)

SpecSignaling == Init /\ [][NextSignaling]_vars

\* One session at a time: the caller connects when no socket is held, the
\* desktop offers on the current socket, and a session ends by disconnect(),
\* desktop-disconnected, a remote close or the unmount effect.
OneSession(frames) ==
  \/ signalingSocketRef = 0 /\ CallConnect("roomA")
  \/ CallDisconnect
  \/ FlushEffect
  \/ \E s \in SocketIds : SigConnect(s)
  \/ \E s \in SocketIds : s = signalingSocketRef /\ SigOffer(s, "desk1")
  \/ \E s \in SocketIds : SigDesktopDisconnected(s)
  \/ \E p \in PeerIds : PeerConnect(p)
  \/ \E p \in PeerIds : PeerClose(p)
  \/ \E p \in PeerIds, f \in frames : PeerData(p, f)

\* SpecTransfer: the transfer engine under every photo frame.
TransferFrames ==
  {f \in Frames : f.kind \in {"photo-start", "binary", "photo-complete",
                              "manifest-nophotos"}}

NextTransfer == OneSession(TransferFrames)

SpecTransfer == Init /\ [][NextTransfer]_vars

\* SpecControl: the control records (every manifest, error, pong, unknown types)
\* around the transfer of one photo.
ControlFrames ==
  {f \in Frames : \/ f.kind \in {"manifest", "error", "pong", "unknown"}
                  \/ f.kind = "photo-start" /\ f.photoId = 1 /\ f.mimeType = "image/jpeg"
                  \/ f.kind = "photo-complete" /\ f.photoId = 1}

NextControl ==
  \/ OneSession(ControlFrames)
  \/ \E m \in LegacyMessages : LegacyManifestResponse(m)

SpecControl == Init /\ [][NextControl]_vars

\* SpecHeartbeat: one session at a time while time passes; the desktop answers
\* with pong records.
HeartbeatFrames == {f \in Frames : f.kind = "pong"}

NextHeartbeat ==
  \/ signalingSocketRef = 0 /\ CallConnect("roomA")
  \/ CallDisconnect
  \/ \E s \in SocketIds : SigConnect(s)
  \/ \E s \in SocketIds : SigDrop(s)
  \/ \E s \in SocketIds : s = signalingSocketRef /\ SigOffer(s, "desk1")
  \/ \E s \in SocketIds : SigDesktopDisconnected(s)
  \/ \E p \in PeerIds : PeerConnect(p)
  \/ \E p \in PeerIds : PeerClose(p)
  \/ \E p \in PeerIds, f \in HeartbeatFrames : PeerData(p, f)
  \/ CallRequestManifest
  \/ HeartbeatTick

SpecHeartbeat == Init /\ [][NextHeartbeat]_vars

\* SpecScanner: the pairing scanner under QR texts and manual entries of every
\* shape of field.
TypeValues == {Absent, Str(Webrtc), Str(Websocket), Arr(Webrtc)}
ServerTexts == {<<>>, WsBare, WsHost, WssHost, HttpHost, Blank \o WsHost}
ServerValues == {Absent, Num(<<"5">>), Arr(WsHost)} \cup {Str(cs) : cs \in ServerTexts}
RoomTexts == {<<>>, <<"a", "1">>, <<"A", "F">>, <<"g", "1">>, <<"a", "1", " ">>, Blank}
RoomValues == {Absent, Num(<<"0">>), Num(<<"1", "2">>), Arr(<<"a", "1">>)}
                \cup {Str(cs) : cs \in RoomTexts}
ScannedPayloads ==
  {Payload("invalid", Absent, Absent, Absent), Payload("null", Absent, Absent, Absent)}
    \cup {Payload("object", t, srv, room) :
            t \in TypeValues, srv \in ServerValues, room \in RoomValues}

NextScanner ==
  \/ StartScanning
  \/ \E payload \in ScannedPayloads : HandleSuccess(payload)
  \/ ScannerStopped
  \/ ErrorTimeout
  \/ \E payload \in ScannedPayloads : HandleFileUpload(payload)
  \/ \E manualServer \in ServerTexts, manualToken \in RoomTexts :
        HandleManualSubmit(manualServer, manualToken)

SpecScanner == Init /\ [][NextScanner]_vars

\* The saved-connection library called directly.
NextStore ==
  \/ \E info \in Pairings, outcome \in RemoteOutcomes : CallSave(info, outcome)
  \/ \E outcome \in RemoteOutcomes : CallLoad(outcome)
  \/ \E outcome \in RemoteOutcomes : CallDelete(outcome)
  \/ \E outcome \in RemoteOutcomes : CallUpdateLastConnected(outcome)
  \/ AuthChange
  \/ \E d \in Delays : Advance(d)

SpecStore == Init /\ [][NextStore]_vars

\* The App over the hook and the saved-connection library.
AppPairings == {p \in Pairings : p.roomId = "roomA"}
AppOutcomes == {"ok", "error"}

NextApp ==
  \/ \E t \in PayloadTypes, info \in AppPairings, outcome \in AppOutcomes :
       HandleQRScanSuccess(t, info, outcome)
  \/ HandleTestConnect("roomB")
  \/ \E outcome \in AppOutcomes : AutoReconnectEffect(outcome)
  \/ \E outcome \in AppOutcomes : TouchEffect(outcome)
  \/ OtherStateEffects
  \/ \E outcome \in AppOutcomes : HandleDisconnect(outcome)
  \/ \E outcome \in AppOutcomes, signedOut \in BOOLEAN : HandleSignOut(outcome, signedOut)
  \/ AppAuthChange
  \/ \E d \in Delays : AppAdvance(d)
  \/ \E s \in SocketIds : SigConnect(s)
  \/ \E s \in SocketIds : SigOffer(s, "desk1")
  \/ \E p \in PeerIds : PeerConnect(p)
  \/ \E p \in PeerIds : PeerClose(p)

SpecApp == Init /\ [][NextApp]_vars

\* The WebSocket hook with device tokens.
NextWsHook ==
  \/ \E cred \in Credentials, outcome \in DeviceOutcomes : WsCallConnect(cred, outcome)
  \/ \E outcome \in DeviceOutcomes : WsCallDisconnect(outcome)
  \/ \E s \in WsIds : WsOpens(s)
  \/ \E s \in WsIds, m \in WsMessages, outcome \in DeviceOutcomes : WsReceives(s, m, outcome)
  \/ \E s \in WsIds : WsFails(s)
  \/ \E s \in WsIds, code \in CloseCodes : WsServerCloses(s, code)
  \/ \E s \in WsIds, code \in CloseCodes : WsCloseCompletes(s, code)
  \/ \E s \in WsIds : WsTimeoutFires(s)
  \/ \E lo \in DeviceOutcomes, so \in DeviceOutcomes : WsReconnectTimerFires(lo, so)
  \/ \E lo \in DeviceOutcomes, so \in DeviceOutcomes : WsPageReload(lo, so)
  \/ WsAuthChange

SpecWsHook == Init /\ [][NextWsHook]_vars

\* The WebSocketClient, its caller, its sockets and its timers.
NextClient ==
  \/ ClientCallConnect
  \/ ClientCallDisconnect
  \/ \E type \in RequestTypes : ClientCallSend(type)
  \/ \E s \in ClientSocketIds : ClientSocketOpens(s)
  \/ \E s \in ClientSocketIds, type \in ClientMessages : ClientReceives(s, type)
  \/ \E s \in ClientSocketIds : ClientSocketFails(s)
  \/ \E s \in ClientSocketIds, code \in CloseCodes : ClientServerCloses(s, code)
  \/ \E s \in ClientSocketIds, code \in CloseCodes : ClientCloseCompletes(s, code)
  \/ \E s \in ClientSocketIds : ClientTimeoutFires(s)
  \/ ClientReconnectTimerFires

SpecClient == Init /\ [][NextClient]_vars

\* SpecWsRace: the legacy hook with connect() as the two steps its await makes
\* of it, so that other calls and events run between them.
NextWsRace ==
  \/ \E cred \in Credentials : WsConnectBegins(cred)
  \/ \E lo \in DeviceOutcomes : WsReconnectTimerBegins(lo)
  \/ \E i \in 1..MaxPendingConnects, so \in DeviceOutcomes : WsConnectResumes(i, so)
  \/ \E o \in DeviceOutcomes : WsCallDisconnect(o)
  \/ \E s \in WsIds : WsOpens(s)
  \/ \E s \in WsIds : WsFails(s)
  \/ \E s \in WsIds, code \in CloseCodes : WsServerCloses(s, code)
  \/ \E s \in WsIds, code \in CloseCodes : WsCloseCompletes(s, code)
  \/ \E s \in WsIds : WsTimeoutFires(s)

SpecWsRace == Init /\ [][NextWsRace]_vars

\* SpecBatch: the Socket.IO batch path while its socket stays connected.
NextBatch ==
  \/ \E l \in BatchManifests : BatchManifestResponse(l)
  \/ BatchManifestError("E1")
  \/ \E i \in PhotoIds, c \in BatchChunks, n \in TotalSizes, k \in DeclaredChecksums,
        m \in {"", "image/png"} : BatchPhotoData(i, c, n, k, m)
  \/ \E i \in PhotoIds, n \in TotalSizes, k \in DeclaredChecksums :
        BatchPhotoComplete(i, n, k)

SpecBatch == Init /\ [][NextBatch]_vars

\* ------------------------------------------------------------ claims
\* C1: the state becomes `connected` only by the peer's 'connect' event, and
\* only from `connecting`.
C1_ConnectedOnlyFromConnecting ==
  [][(connectionState' = "connected" /\ connectionState # "connected")
       => (lastEvt'.op = "peer-connect" /\ connectionState = "connecting")]_vars

\* C2: whenever a data channel opens and the state becomes `connected`, the
\* step sends request-manifest over the data channel of the peer that opened.
C2_ManifestRequestedOnConnected ==
  (lastEvt.op = "peer-connect" /\ connectionState = "connected")
    => \E k \in 1..Len(sent) :
         sent[k] = Msg("dc", lastEvt.peer, "request-manifest", "peer", <<>>)

\* C3: the session never hangs in `connecting`: it is never `connecting` with
\* nothing left that could move it on, i.e. with every signaling socket closed
\* or given up and no peer alive.
C3_NeverStuckConnecting ==
  connectionState = "connecting"
    => \/ \E s \in SocketIds : sockets[s].status \in {"opening", "connected"}
       \/ \E p \in PeerIds : peers[p].status \in LiveStatuses

\* C4: after each of one or two disconnect() calls in a row the state is
\* `disconnected`, the session holds no peer and no signaling socket, and the
\* call did not throw.
C4_DisconnectIdempotent ==
  discRun >= 1
    => /\ connectionState = "disconnected"
       /\ peerRef = 0
       /\ signalingSocketRef = 0
       /\ ~threw

\* C4, its case: disconnect() called twice in a row on a session whose socket
\* and peer the first call tore down.
C4_Witness ==
  /\ discRun = 2
  /\ \E s \in SocketIds : sockets[s].status = "closed"
  /\ \E p \in PeerIds : peers[p].status = "destroyed"

\* C5: desktop-disconnected received while `connected` leaves the state
\* `disconnected` once the handlers of the teardown have run.
C5_DesktopDisconnectedEndsDisconnected ==
  [][(connectionState = "connected" /\ lastEvt'.op = "desktop-disconnected")
       => connectionState' = "disconnected"]_vars

\* C6: after disconnect() or a desktop-disconnected teardown no transfer is in
\* flight: the descriptor and the chunk buffer are cleared.
C6_TeardownClearsTransfer ==
  lastEvt.op \in {"disconnect", "desktop-disconnected"}
    => (~currentPhotoRef.set /\ ~photoBufferRef.set)

\* C7: the photo list is exactly the entries of the most recent manifest, in its
\* order, in the WebRTC hook and in the legacy hook.
C7_PhotosAreLastManifest ==
  /\ Len(photos) = Len(lastManifest)
  /\ \A k \in 1..Len(lastManifest) :
       photos[k].id = lastManifest[k].id /\ photos[k].filename = lastManifest[k].name
  /\ legacyPhotos = (IF lastLegacy.has THEN lastLegacy.photos ELSE <<>>)

\* C7, its case: a manifest of one entry received after a manifest of two.
C7_Witness ==
  /\ lastEvt.op = "manifest"
  /\ Len(prevManifest) = 2
  /\ prevManifest[1].id # prevManifest[2].id
  /\ Len(lastManifest) = 1
  /\ Len(photos) = 1

\* C8: photo-start(P, mimeType), binary frames c1..cn and photo-complete, with
\* no other photo-start in between: the image of P is c1..cn in receipt order
\* with that mimeType, and no transfer is in flight.
C8_ImageIsChunksInOrder ==
  (sinceStart.phase = "complete" /\ sinceStart.pure)
    => /\ photoData[sinceStart.photoId] \in 1..Len(blobs)
       /\ blobs[photoData[sinceStart.photoId]] =
            [parts |-> sinceStart.frames, type |-> sinceStart.mimeType]
       /\ ~currentPhotoRef.set
       /\ ~photoBufferRef.set

\* C8, its case: a transfer of two different chunks just completed.
C8_Witness ==
  /\ lastEvt.op = "photo-complete"
  /\ sinceStart.phase = "complete"
  /\ sinceStart.pure
  /\ sinceStart.mimeType = "image/png"
  /\ Len(sinceStart.frames) = 2
  /\ sinceStart.frames[1] # sinceStart.frames[2]

\* C9: on photo:complete for a buffered photo of the list, a resource is exposed
\* for it iff the checksum of the reassembled bytes (the bytes received, filled
\* with zeros up to the declared total size) equals the declared one; on
\* mismatch the buffer is discarded, no resource is exposed and an error is
\* surfaced (at least logged at error level).
C9_ExposedIffChecksumMatches ==
  (batchEvt.op = "photo:complete" /\ batchEvt.received # <<>>)
    => LET P == batchEvt.photoId
           size == IF Len(batchEvt.received) > batchEvt.totalSize
                   THEN Len(batchEvt.received) ELSE batchEvt.totalSize
           reassembled == [k \in 1..size |-> IF k <= Len(batchEvt.received)
                                             THEN batchEvt.received[k] ELSE 0]
           match == MD5(reassembled) = batchEvt.checksum
           exposed == \E k \in 1..Len(batchPhotos) :
                        /\ batchPhotos[k].id = P
                        /\ batchEvt.url # 0
                        /\ batchPhotos[k].url = batchEvt.url
       IN /\ (\E k \in 1..Len(batchPhotos) : batchPhotos[k].id = P)
               => (exposed <=> match)
          /\ ~match => /\ ~photoBuffersRef[P].has
                       /\ ~exposed
                       /\ "error" \in batchEvt.logged

C11_RequestPhotoSendsOnce ==
  connectionState = "connected"
    => \A i \in PhotoIds, q \in Qualities, d \in Dimensions :
         LET r == RequestPhoto(Cur, i, q, d)
         IN /\ ~r.threw
            /\ \E p \in PeerIds :
                 r.sent = <<Msg("dc", p, "request-photo", "peer", <<i, q, d>>)>>

\* C12: a signaling error event or a peer error event handled while the state is
\* `connecting` or `connected` leaves the state `error` with an error message
\* stored.
C12_ErrorEventEndsInError ==
  (lastEvt.op \in {"sig-error", "peer-error"} /\ stateBefore \in {"connecting", "connected"})
    => (connectionState = "error" /\ error # NoError)

\* C13: the state leaves `error` towards `connecting` or `connected` only by a
\* connect() call of the caller.
C13_ErrorIsLeftOnlyByConnect ==
  (stateBefore = "error" /\ connectionState \in {"connecting", "connected"})
    => lastEvt.op = "connect"

\* C16: the remote side closing the data channel while the state is `connected`
\* leaves the state `disconnected`.
C16_ChannelCloseEndsDisconnected ==
  (lastEvt.op = "peer-close" /\ stateBefore = "connected")
    => connectionState = "disconnected"

\* C16, its case: the peer the session holds was closed by the remote side
\* while connected, no error being recorded.
C16_Witness ==
  /\ lastEvt.op = "peer-close"
  /\ stateBefore = "connected"
  /\ peerRef = lastEvt.peer
  /\ peers[peerRef].status = "destroyed"
  /\ error = NoError

\* C17: a drop of the signaling transport leaves the state `connecting` when it
\* was `connecting` or `connected`, and `disconnected` when it was
\* `disconnected`.
C17_DropFollowsCurrentState ==
  lastEvt.op = "sig-disconnect"
    => /\ stateBefore \in {"connecting", "connected"} => connectionState = "connecting"
       /\ stateBefore = "disconnected" => connectionState = "disconnected"

\* C14: in every state at most one object URL per photoId is unreleased: when
\* an image of P replaces an earlier image of P, the earlier URL is revoked.
C14_OneLiveHandlePerPhoto ==
  \A i \in PhotoIds :
    Cardinality({n \in 1..Len(blobs) : urlOwner[n] = i /\ n \notin revoked}) <= 1

\* C15: after disconnect() or a desktop-disconnected teardown every object URL
\* created since the session's connect() has been revoked.
C15_TeardownReleasesHandles ==
  lastEvt.op \in {"disconnect", "desktop-disconnected"}
    => sessionUrls \subseteq revoked

\* C18: at every heartbeat-interval tick that finds the state `connected` (and
\* leaves it so) a ping is sent over the data channel.
C18_PingAtEveryTick ==
  (lastEvt.op = "heartbeat-tick" /\ stateBefore = "connected" /\ connectionState = "connected")
    => \E k \in 1..Len(sent) : sent[k].ch = "dc" /\ sent[k].type = "ping"

\* C19: every time the signaling transport connects, the first signaling
\* message sent on that connection is join-room with the roomId given to
\* connect().
C19_JoinRoomFirstOnEveryConnect ==
  lastEvt.op = "sig-connect"
    => /\ Len(sent) >= 1
       /\ sent[1] = Msg("sig", lastEvt.sock, "join-room", "server", sockets[lastEvt.sock].room)

\* C20: the scanner hands a payload to onScanSuccess iff its type is the string
\* "webrtc", its signalingServer is a string that starts with ws:// or wss://
\* followed by at least one character, and its roomId is a non-empty string of
\* hexadecimal digits; otherwise an error is shown, onScanError is invoked and
\* onScanSuccess is not (camera, upload and manual entry).
C20_ScannerAcceptsExactlyValid ==
  scanEvt.op \in {"camera", "upload", "manual"}
    => LET payload == scanEvt.input
           server == payload.signalingServer
           room == payload.roomId
           valid == /\ payload.json = "object"
                    /\ payload.type = Str(Webrtc)
                    /\ server.t = "string"
                    /\ \E pre \in {WsBare, WssBare} :
                         Len(server.s) > Len(pre) /\ SubSeq(server.s, 1, Len(pre)) = pre
                    /\ room.t = "string"
                    /\ Len(room.s) >= 1
                    /\ \A k \in 1..Len(room.s) : room.s[k] \in HexDigits
       IN /\ scanEvt.success <=> valid
          /\ scanEvt.success => scanEvt.delivered = payload
          /\ ~scanEvt.success => (scanEvt.failed /\ scanner.error # NoError)



\* C21: a load() that follows a save() with no delete() in between, within the
\* retention window, returns the signalingServer and roomId of that save,
\* whoever is signed in and whatever the remote store did during the save.
C21_LoadReturnsLastSaved ==
  (storeEvt.op = "load" /\ lastSaved.has /\ storeEvt.before.now - lastSaved.at < MaxAge)
    => /\ storeEvt.data.has
       /\ storeEvt.data.signalingServer = lastSaved.signalingServer
       /\ storeEvt.data.roomId = lastSaved.roomId

\* C22: load() never returns a record older than the 90-day window; in either
\* store a record aged 90 days minus 1 second that load() reads is returned,
\* and a record aged 90 days plus 1 second is not.
C22_RetentionBoundary ==
  storeEvt.op = "load" =>
    LET b == storeEvt.before
        remoteRead == b.user /\ storeEvt.outcome = "ok" /\ b.remote.has
        remoteAge == b.now - b.remote.at
        localRead == b.local.has /\ storeEvt.source # "remote"
        localAge == b.now - b.local.at
    IN /\ storeEvt.data.has => b.now - storeEvt.data.lastConnectedAt <= MaxAge
       /\ (remoteRead /\ remoteAge = MaxAge - 1)
            => (storeEvt.source = "remote" /\ storeEvt.data = DataOf(b.remote))
       /\ (remoteRead /\ remoteAge = MaxAge + 1) => storeEvt.source # "remote"
       /\ (localRead /\ localAge = MaxAge - 1)
            => (storeEvt.source = "local" /\ storeEvt.data = DataOf(b.local))
       /\ (b.local.has /\ localAge = MaxAge + 1) => storeEvt.source # "local"

\* a load() that found the row one second past the window and the local item one
\* second inside it, and returned the local item
C22_Witness ==
  /\ storeEvt.op = "load"
  /\ storeEvt.before.user /\ storeEvt.outcome = "ok" /\ storeEvt.before.remote.has
  /\ storeEvt.before.now - storeEvt.before.remote.at = MaxAge + 1
  /\ storeEvt.before.local.has
  /\ storeEvt.before.now - storeEvt.before.local.at = MaxAge - 1
  /\ storeEvt.source = "local"

\* C23: a load() that follows a delete(), with no save() in between, returns no
\* saved connection.
C23_NothingLoadedAfterDelete ==
  (storeEvt.op = "load" /\ ~lastSaved.has) => ~storeEvt.data.has


\* C24: once the user has explicitly disconnected (forget this device), the
\* auto-reconnect effect issues no connect() until the user pairs again.
C24_NoReconnectAfterForget == ~(app.forgotten /\ app.evt = "auto-connect")

\* C25: when the effect of a transition to connected has run, every stored copy
\* of the saved connection, the row and the local item, carries the time of that
\* connection.
C25_ConnectedRefreshesTimestamp ==
  app.evt = "touch" =>
    /\ store.remote.has => store.remote.at = store.now
    /\ store.local.has => store.local.at = store.now


\* C26: when the peer has signalled that the device token is revoked, the saved
\* connection is in neither store: not in the device_connections row and not in
\* the local cache.
C26_RevokedForgetsCredentials ==
  wsEvt.op = "AUTH_REVOKED" =>
    (deviceStore.remote = NoCredential /\ deviceStore.local = NoCredential)

\* C27: after an authentication failure reported by the peer, no connection
\* attempt is made by the reconnect timer; the next attempt is the caller's.
C27_NoRetryAfterAuthFailure ==
  ~(wsHook.authFailed /\ wsEvt.op = "reconnect-timer" /\ wsEvt.attempt)

\* C28: when the close of a socket that the 10-second connection timeout closed
\* has been handled, the state is `error` and the error is the timeout message.
C28_TimeoutEndsInError ==
  (wsEvt.op = "close" /\ wsSockets[wsEvt.sock].timedOut)
    => (wsHook.connectionState = "error" /\ wsHook.error = "timeout")


\* C29: the first message transmitted on a connection is AUTH, and a message of
\* another type is transmitted only on a connection that has received
\* AUTH_SUCCESS; a send() that throws transmits nothing.
C29_AuthBeforeAnythingElse ==
  /\ (clientEvt.transmitted /\ clientEvt.type # "AUTH")
       => (clientSockets[clientEvt.on].authSent /\ clientSockets[clientEvt.on].authed)
  /\ (clientEvt.op = "send" /\ clientEvt.threw) => ~clientEvt.transmitted

\* C30: no promise returned by connect() is left pending for ever: a pending
\* promise still has its timer armed or a socket that is not closed yet.
C30_ConnectPromiseSettles ==
  \A s \in ClientSocketIds :
    clientSockets[s].promise = "pending"
      => (clientSockets[s].timer = "armed" \/ clientSockets[s].readyState # "CLOSED")


\* C31: a photo-complete record finalises the transfer in flight only if it
\* names the photoId the transfer's photo-start announced, and the image is then
\* stored under that photoId; a photo-complete naming another photoId leaves the
\* transfer as it is.
C31_CompleteFinalisesItsOwnTransfer ==
  (lastEvt.op = "photo-complete" /\ sinceStart.phase = "complete")
    => IF sinceStart.named = sinceStart.photoId
       THEN ~currentPhotoRef.set /\ photoData[sinceStart.photoId] = Len(blobs)
       ELSE currentPhotoRef.set /\ currentPhotoRef.id = sinceStart.photoId


C33_OfferGoesToAResponder ==
  /\ [](\A p \in PeerIds : ~peers[p].initiator)
  /\ [][lastEvt'.op = "offer"
          => IF peerRef = 0
             THEN /\ peerRef' # 0
                  /\ peers[peerRef'].status = "unused"
                  /\ peers'[peerRef'].status = "negotiating"
                  /\ ~peers'[peerRef'].initiator
                  /\ \A q \in PeerIds \ {peerRef'} : peers'[q] = peers[q]
             ELSE /\ peerRef' = peerRef
                  /\ \A q \in PeerIds \ {peerRef} : peers'[q] = peers[q]
                  /\ peers'[peerRef].status =
                       IF peers[peerRef].status = "new" THEN "negotiating"
                       ELSE peers[peerRef].status
                  /\ threw' = (peers[peerRef].status = "destroyed")]_vars

\* an offer found no peer, created one and started its negotiation
C33_Witness ==
  /\ lastEvt.op = "offer"
  /\ lastEvt.peer # 0
  /\ peerRef = lastEvt.peer
  /\ peers[peerRef].status = "negotiating"
  /\ ~peers[peerRef].initiator


\* C34: a signal generated by a peer is relayed as exactly one signaling
\* message, on the socket of the peer's session and addressed to the desktop the
\* peer was created for: offer for an offer, answer for an answer, ice-candidate
\* for a candidate, signal for anything else.  It goes out in the step itself,
\* or from the socket's send buffer when the transport is down.
C34_SignalRelayedOnceByShape ==
  lastEvt.op = "peer-signal"
    => LET p == lastEvt.peer
           s == peers[p].socket
           Relayed(m) ==
             /\ m.ch = "sig" /\ m.via = s /\ m.to = peers[p].desktopId
             /\ m.type = CASE m.arg = "offer" -> "offer"
                           [] m.arg = "answer" -> "answer"
                           [] m.arg = "candidate" -> "ice-candidate"
                           [] OTHER -> "signal"
       IN \/ Len(sent) = 1 /\ Relayed(sent[1])
          \/ /\ sent = <<>>
             /\ sockets[s].status = "opening"
             /\ sockets[s].sendBuffer # <<>>
             /\ Relayed(sockets[s].sendBuffer[Len(sockets[s].sendBuffer)])


\* C35: the client reconnects on its own only after an unexpected close, never
\* once the caller has called disconnect(), and it counts at most
\* maxReconnectAttempts automatic reconnects.
C35_NoReconnectAfterDisconnect ==
  /\ ~(/\ clientEvt.op = "reconnect"
       /\ client.disconnected
       /\ clientSockets[clientEvt.sock].readyState = "CONNECTING")
  /\ client.reconnectAttempts <= MaxReconnectAttempts


\* C36: at most one signaling socket is alive and feeding the session: a
\* socket that is connected, or still trying to connect, is the one
\* signalingSocketRef holds.
C36_OneLiveSignalingSocket ==
  \A s \in SocketIds :
    sockets[s].status \in {"opening", "connected"} => s = signalingSocketRef


\* C37: at most one peer object is alive at any time.
C37_OneLivePeer ==
  Cardinality({p \in PeerIds : peers[p].status \in LiveStatuses}) <= 1

\* C38: only frames that are not JSON become chunks: the buffer of the transfer
\* in progress never holds the text of a control record.
C38_OnlyBinaryFramesBecomeChunks ==
  photoBufferRef.set
    => \A k \in 1..Len(photoBufferRef.chunks) : photoBufferRef.chunks[k] \in ChunkVals

\* C39: requestManifest() and requestPhoto() called in a state other than
\* connected send nothing, throw nothing and leave the state as it was.
C39_RequestsOutsideConnectedAreNoOps ==
  (lastEvt.op \in {"requestManifest", "requestPhoto"} /\ stateBefore # "connected")
    => sent = <<>> /\ ~threw /\ connectionState = stateBefore

\* C40: the legacy hook never has two WebSockets connecting or open at once.
C40_OneWebSocketAtATime ==
  Cardinality({s \in WsIds : wsSockets[s].readyState \in {"CONNECTING", "OPEN"}}) <= 1

====
